---------------------------- MODULE Spec2Model ----------------------------
(***************************************************************************)
(* Model of the test reporting system of scripts/test-reporting.py:        *)
(* the JUnit parser (JUnitParser.parse_junit_file), the SQLite result      *)
(* store (TestDataManager) and the ingestion run of main().                *)
(*                                                                         *)
(* Time is counted in ticks of half a day.  A datetime is a record         *)
(* [wall, us, aware, off]: wall is the wall-clock reading in ticks, us the *)
(* sub-tick fraction (0 or 1, standing for the microsecond field), aware   *)
(* says whether the value carries a UTC offset, off is that offset in      *)
(* ticks.  A naive datetime is local time; the process is taken to run     *)
(* with the local zone equal to UTC.                                       *)
(*                                                                         *)
(* Text that the code compares or parses as text (ISO-8601 timestamps) is  *)
(* a sequence of tokens: a fixed-width number field is one token holding   *)
(* the number, a punctuation character is one token holding its ASCII      *)
(* code.  Comparing token sequences lexicographically is comparing the     *)
(* strings byte by byte.                                                   *)
(***************************************************************************)
EXTENDS Integers, Sequences, FiniteSets, TLC

VARIABLES
    doc,        \* SpecParse: the file handed to parse_junit_file
    out,        \* SpecParse: what parse_junit_file returned for doc
    outW,       \* SpecParse: what it returned for doc wrapped in <testsuites>
    now,        \* the wall clock, in half ticks (datetime.now())
    db,         \* rows of table test_results, in rowid order
    ret,        \* what the last store call returned or raised
    appended,   \* SpecStore: the TestResults whose insert was committed
    leak,       \* connections left open: "none", or "locked" when one holds
                \* the write lock
    pc,         \* main(): where the run stands
    mode,       \* main(): "none" | "single" | "batch" (args.input)
    format,     \* main(): "html" | "json" | "all" (args.format)
    files,      \* main(): the input file, or the files of the directory
    fileIdx,    \* main(): index of the file being ingested
    pending,    \* main(): records of the current file not yet stored
    fileLog,    \* main(): per file, how its ingestion ended and what it stored
    reports,    \* main(): the report artifacts written
    window,     \* SpecAnalytics: the records get_recent_results returned
    analysis,   \* SpecAnalytics: what the last analytics or report call
                \* returned or raised
    health,     \* SpecHealth: the run of deployment-health-check.py
    rbac        \* SpecRbac: the run of test-rbac-permissions.py

parseVars == <<doc, out, outW>>
storeVars == <<db, ret, appended, leak>>
mainVars  == <<pc, mode, format, files, fileIdx, pending, fileLog, reports>>
reportVars == <<window, analysis>>
scriptVars == <<health, rbac>>
vars == <<doc, out, outW, now, db, ret, appended, leak,
          pc, mode, format, files, fileIdx, pending, fileLog, reports,
          window, analysis, health, rbac>>

---------------------------------------------------------------------------
(* Bounds of the model. *)
MaxKids    == 2   \* children of one element in the generated documents
MaxRows    == 2   \* rows the store may hold
MaxFiles   == 2   \* files of an input directory
MaxDays    == 1   \* largest window, in days, a query is asked for
MaxAdvance == 2   \* half ticks the clock may advance during a run

(* Python's None, as a value of an Optional[str] field. *)
None == "<None>"

---------------------------------------------------------------------------
(* datetime, isoformat() and fromisoformat() *)

DayTicks == 2     \* timedelta(days=1), in ticks
PLUS  == 43       \* '+'
MINUS == 45       \* '-'
DOT   == 46       \* '.'
ZED   == 90       \* 'Z'

(* The clock starts late enough for every cutoff to be a valid date. *)
ClockStart == 2 * DayTicks * MaxDays
MaxNow == ClockStart + MaxAdvance
MaxWall == (MaxNow \div 2) + 1    \* wall readings are the tokens 0..MaxWall

DT(w, u, a, o) == [wall |-> w, us |-> u, aware |-> a, off |-> o]
Naive(w, u) == DT(w, u, FALSE, 0)
Aware(w, u, o) == DT(w, u, TRUE, o)

(* datetime.now(): the local wall clock, naive. *)
DatetimeNow(clock) == Naive(clock \div 2, clock % 2)

(* datetime.isoformat(): "YYYY-MM-DDTHH:MM:SS", then ".ffffff" only when   *)
(* the microsecond is not 0, then "+HH:MM" or "-HH:MM" only when aware.    *)
IsoFormat(dt) ==
    <<dt.wall>>
    \o (IF dt.us # 0 THEN <<DOT, dt.us>> ELSE <<>>)
    \o (IF ~dt.aware THEN <<>>
        ELSE IF dt.off >= 0 THEN <<PLUS, dt.off>> ELSE <<MINUS, 0 - dt.off>>)

IsWall(t) == t \in 0..MaxWall
IsSign(t) == t \in {PLUS, MINUS}
SignedOff(sign, mag) == IF sign = PLUS THEN mag ELSE 0 - mag

(* datetime.fromisoformat(): the datetime a string denotes, or a raise.    *)
FromIsoFormat(s) ==
    LET bad == [ok |-> FALSE, dt |-> Naive(0, 0)]
        good(d) == [ok |-> TRUE, dt |-> d]
    IN  IF Len(s) = 0 \/ ~IsWall(s[1]) THEN bad
        ELSE IF Len(s) = 1 THEN good(Naive(s[1], 0))
        ELSE IF Len(s) = 3 /\ s[2] = DOT /\ s[3] \in 0..1
             THEN good(Naive(s[1], s[3]))
        ELSE IF Len(s) = 3 /\ IsSign(s[2]) /\ s[3] \in 0..1
             THEN good(Aware(s[1], 0, SignedOff(s[2], s[3])))
        ELSE IF Len(s) = 5 /\ s[2] = DOT /\ s[3] \in 0..1
                /\ IsSign(s[4]) /\ s[5] \in 0..1
             THEN good(Aware(s[1], s[3], SignedOff(s[4], s[5])))
        ELSE bad

(* str.replace('Z', '+00:00') *)
ReplaceZ(s) ==
    LET F[i \in 0..Len(s)] ==
            IF i = 0 THEN <<>>
            ELSE F[i-1] \o (IF s[i] = ZED THEN <<PLUS, 0>> ELSE <<s[i]>>)
    IN  F[Len(s)]

(* s < t for strings: byte-wise lexicographic order, a proper prefix first *)
(* (Python's str comparison and SQLite's BINARY collation on TEXT).        *)
StrLess(s, t) ==
    \E i \in 1..Len(t) :
        /\ \A j \in 1..(i-1) : j <= Len(s) /\ s[j] = t[j]
        /\ (i > Len(s) \/ s[i] < t[i])

(* The instant a datetime denotes, in half ticks since the epoch. *)
Instant(dt) == 2 * (dt.wall - (IF dt.aware THEN dt.off ELSE 0)) + dt.us

---------------------------------------------------------------------------
(* XML documents, as xml.etree.ElementTree holds them: an element has a    *)
(* tag, a dictionary of attributes (a function from the names present),    *)
(* a text (None when it has none) and its child elements in document order *)

Elem(tag, attrib, text, children) ==
    [tag |-> tag, attrib |-> attrib, text |-> text, children |-> children]

(* Element.get(key, default) *)
Get(e, key, default) ==
    IF key \in DOMAIN e.attrib THEN e.attrib[key] ELSE default

Has(e, key) == key \in DOMAIN e.attrib

(* Element.findall(tag): the direct children with that tag. *)
FindChildren(e, tag) == SelectSeq(e.children, LAMBDA c : c.tag = tag)

(* Element.find(tag): the first direct child with that tag, or None. *)
HasChild(e, tag) == FindChildren(e, tag) # <<>>
Find(e, tag) == Head(FindChildren(e, tag))

(* Element.findall('.//' + tag): every descendant with that tag, in        *)
(* document order; the element itself is not among them.                   *)
RECURSIVE FindAll(_, _)
FindAll(e, tag) ==
    LET F[i \in 0..Len(e.children)] ==
            IF i = 0 THEN <<>>
            ELSE F[i-1]
                 \o (IF e.children[i].tag = tag THEN <<e.children[i]>> ELSE <<>>)
                 \o FindAll(e.children[i], tag)
    IN  F[Len(e.children)]

(* int(s) and float(s) of an attribute string; durations are counted in    *)
(* tenths of a second.  A string outside the tables makes them raise.      *)
IntTable == ("-1" :> (0 - 1)) @@ ("0" :> 0) @@ ("1" :> 1) @@ ("2" :> 2) @@ ("3" :> 3)
FloatTable == ("0.5" :> 5) @@ ("1.5" :> 15) @@ ("2" :> 20)

IntOk(e, key) == Has(e, key) => e.attrib[key] \in DOMAIN IntTable
IntAttr(e, key) == IF Has(e, key) THEN IntTable[e.attrib[key]] ELSE 0
FloatOk(e, key) == Has(e, key) => e.attrib[key] \in DOMAIN FloatTable
FloatAttr(e, key) == IF Has(e, key) THEN FloatTable[e.attrib[key]] ELSE 0

(* a or b, for Optional[str] operands *)
PyOr(a, b) == IF a # None /\ a # "" THEN a ELSE b

(* os.getenv('ENVIRONMENT', 'unknown') *)
Environment == "unknown"

---------------------------------------------------------------------------
(* JUnitParser.parse_junit_file *)

(* A ratio passed / total * 100, kept exact as numerator and denominator. *)
Ratio(n, d) == [num |-> n, den |-> d]

(* The timestamp of a suite: its attribute when present, non-empty and     *)
(* parsable, the current time otherwise.                                   *)
SuiteTimestamp(ts, clock) ==
    IF Has(ts, "timestamp") /\ ts.attrib["timestamp"] # <<>>
    THEN LET p == FromIsoFormat(ReplaceZ(ts.attrib["timestamp"]))
         IN  IF p.ok THEN p.dt ELSE DatetimeNow(clock)
    ELSE DatetimeNow(clock)

(* The guard admitting a total of 0. *)
SuccessRateUnguarded(passed_tests, total_tests) ==
    IF total_tests >= 0 THEN Ratio(passed_tests * 100, total_tests) ELSE Ratio(0, 1)

(* passed_tests / total_tests * 100 if total_tests > 0 else 0 *)
SuccessRate(passed_tests, total_tests) ==
    IF total_tests > 0 THEN Ratio(passed_tests * 100, total_tests) ELSE Ratio(0, 1)

(* The int() and float() conversions of a suite's attributes succeed. *)
SuiteAttrsOk(ts) ==
    /\ IntOk(ts, "tests") /\ IntOk(ts, "failures")
    /\ IntOk(ts, "errors") /\ IntOk(ts, "skipped")
    /\ FloatOk(ts, "time")

(* The TestSuiteResult of one <testsuite>. *)
SuiteSummary(ts, clock) ==
    LET total_tests == IntAttr(ts, "tests")
        failures == IntAttr(ts, "failures")
        errors == IntAttr(ts, "errors")
        skipped == IntAttr(ts, "skipped")
        passed_tests == total_tests - failures - errors - skipped
    IN  [suite_name |-> Get(ts, "name", "Unknown Suite"),
         total_tests |-> total_tests,
         passed_tests |-> passed_tests,
         failed_tests |-> failures + errors,
         skipped_tests |-> skipped,
         duration |-> FloatAttr(ts, "time"),
         success_rate |-> SuccessRate(passed_tests, total_tests),
         timestamp |-> SuiteTimestamp(ts, clock),
         environment |-> Environment]

(* The markers tested in another order: <error> before <failure>. *)
CaseOutcomeErrorFirst(tc) ==
    IF HasChild(tc, "error")
    THEN LET error == Find(tc, "error")
         IN  [status |-> "FAILED",
              error_message |-> PyOr(error.text, Get(error, "message", None)),
              error_type |-> Get(error, "type", "Error")]
    ELSE IF HasChild(tc, "failure")
    THEN LET failure == Find(tc, "failure")
         IN  [status |-> "FAILED",
              error_message |-> PyOr(failure.text, Get(failure, "message", None)),
              error_type |-> Get(failure, "type", "Failure")]
    ELSE IF HasChild(tc, "skipped")
    THEN [status |-> "SKIPPED",
          error_message |-> PyOr(Find(tc, "skipped").text,
                                 Get(Find(tc, "skipped"), "message", None)),
          error_type |-> "Skipped"]
    ELSE [status |-> "PASSED", error_message |-> None, error_type |-> None]

(* Status, message and kind of one <testcase>, by its markers. *)
CaseOutcome(tc) ==
    IF HasChild(tc, "failure")
    THEN LET failure == Find(tc, "failure")
         IN  [status |-> "FAILED",
              error_message |-> PyOr(failure.text, Get(failure, "message", None)),
              error_type |-> Get(failure, "type", "Failure")]
    ELSE IF HasChild(tc, "error")
    THEN LET error == Find(tc, "error")
         IN  [status |-> "FAILED",
              error_message |-> PyOr(error.text, Get(error, "message", None)),
              error_type |-> Get(error, "type", "Error")]
    ELSE IF HasChild(tc, "skipped")
    THEN LET skipped == Find(tc, "skipped")
         IN  [status |-> "SKIPPED",
              error_message |-> PyOr(skipped.text, Get(skipped, "message", None)),
              error_type |-> "Skipped"]
    ELSE [status |-> "PASSED", error_message |-> None, error_type |-> None]

(* The TestResult of one <testcase> of a suite. *)
CaseResult(tc, suite_name, suite_timestamp) ==
    LET o == CaseOutcome(tc)
    IN  [test_name |-> Get(tc, "name", None),
         test_suite |-> suite_name,
         status |-> o.status,
         duration |-> FloatAttr(tc, "time"),
         timestamp |-> suite_timestamp,
         error_message |-> o.error_message,
         error_type |-> o.error_type,
         test_file |-> Get(tc, "classname", suite_name),
         environment |-> Environment,
         component |-> None]

(* The suites the parser walks: every <testsuite> below the root, or the   *)
(* root itself when there is none below it and it is a <testsuite>.        *)
Testsuites(root) ==
    LET found == FindAll(root, "testsuite")
    IN  IF found # <<>> THEN found
        ELSE IF root.tag = "testsuite" THEN <<root>> ELSE <<>>

(* The records of the <testcase> children of one suite. *)
SuiteCases(ts, clock) ==
    LET cases == FindChildren(ts, "testcase")
    IN  [i \in 1..Len(cases) |->
            CaseResult(cases[i], Get(ts, "name", "Unknown Suite"),
                       SuiteTimestamp(ts, clock))]

(* Some conversion in the suite raises ValueError. *)
SuiteRaises(ts) ==
    \/ ~SuiteAttrsOk(ts)
    \/ \E i \in 1..Len(ts.children) :
          ts.children[i].tag = "testcase" /\ ~FloatOk(ts.children[i], "time")

(* A file is [wellformed, root]: ET.parse raises on one that is not        *)
(* well-formed XML.  The call returns (results, suite_results) or raises.  *)
Raised == [raised |-> TRUE, results |-> <<>>, suite_results |-> <<>>]

ParseJUnitFile(file, clock) ==
    IF ~file.wellformed THEN Raised
    ELSE LET testsuites == Testsuites(file.root)
             R[i \in 0..Len(testsuites)] ==
                 IF i = 0 THEN <<>>
                 ELSE R[i-1] \o SuiteCases(testsuites[i], clock)
         IN  IF \E i \in 1..Len(testsuites) : SuiteRaises(testsuites[i])
             THEN Raised
             ELSE [raised |-> FALSE,
                   results |-> R[Len(testsuites)],
                   suite_results |->
                       [i \in 1..Len(testsuites) |->
                           SuiteSummary(testsuites[i], clock)]]

---------------------------------------------------------------------------
(* TestDataManager: table test_results of the SQLite database.  Every call *)
(* opens a connection of its own; a call that raises returns without       *)
(* closing it, and the connection stays open until the garbage collector   *)
(* finalizes it.  A connection left open by a failed INSERT still holds    *)
(* the write lock of its transaction, and every later INSERT fails with    *)
(* 'database is locked' for as long as it does.                            *)

(* What the last call of the store returned. *)
NoCall == [op |-> "none"]

(* The row INSERTed for a TestResult: the timestamp as isoformat() text. *)
RowOf(result, rowid) ==
    [id |-> rowid,
     test_name |-> result.test_name,
     test_suite |-> result.test_suite,
     status |-> result.status,
     duration |-> result.duration,
     timestamp |-> IsoFormat(result.timestamp),
     error_message |-> result.error_message,
     error_type |-> result.error_type,
     test_file |-> result.test_file,
     environment |-> result.environment,
     component |-> result.component]

(* The TestResult built from a row: the timestamp by fromisoformat(). *)
ResultOf(row) ==
    [test_name |-> row.test_name,
     test_suite |-> row.test_suite,
     status |-> row.status,
     duration |-> row.duration,
     timestamp |-> FromIsoFormat(row.timestamp).dt,
     error_message |-> row.error_message,
     error_type |-> row.error_type,
     test_file |-> row.test_file,
     environment |-> row.environment,
     component |-> row.component]

(* The NOT NULL columns of test_results hold a value. *)
NotNullOk(result) ==
    /\ result.test_name # None
    /\ result.test_suite # None
    /\ result.status # None

(* An INSERT OR REPLACE on the last rowid instead of a new one. *)
InsertReplacingLast(rows, result) ==
    IF rows = <<>> THEN <<RowOf(result, 1)>>
    ELSE SubSeq(rows, 1, Len(rows) - 1) \o <<RowOf(result, Len(rows))>>

(* INSERT ... ; commit: the row appended with the next rowid. *)
Insert(rows, result) == Append(rows, RowOf(result, Len(rows) + 1))

(* store_test_result(result) on a database holding rows, with leaked       *)
(* connections as lk says: the rows after it, the connections left open    *)
(* after it, and the exception raised ("" when it returns).                *)
StoreOutcome(rows, lk, result) ==
    IF lk = "locked"
    THEN [db |-> rows, leak |-> "locked", raised |-> "OperationalError"]
    ELSE IF ~NotNullOk(result)
    THEN [db |-> rows, leak |-> "locked", raised |-> "IntegrityError"]
    ELSE [db |-> Insert(rows, result), leak |-> lk, raised |-> ""]

(* since_date = (datetime.now() - timedelta(days=days)).isoformat() *)
SinceDate(clock, days) == IsoFormat(DatetimeNow(clock - 2 * DayTicks * days))

(* WHERE timestamp > ?: the rows selected, by their index. *)
Selected(rows, since) == {i \in DOMAIN rows : StrLess(since, rows[i].timestamp)}

(* ORDER BY timestamp DESC: the selected rows in every order in which no   *)
(* row precedes one with a greater timestamp text; SQL leaves the order of *)
(* rows with equal timestamps open.                                        *)
RECURSIVE Descending(_, _)
Descending(rows, sel) ==
    IF sel = {} THEN {<<>>}
    ELSE UNION { { <<rows[i]>> \o rest : rest \in Descending(rows, sel \ {i}) } :
                 i \in { m \in sel :
                           \A j \in sel : ~StrLess(rows[m].timestamp, rows[j].timestamp) } }

(* get_recent_results(days): the lists of TestResult it may return. *)
RecentResults(rows, clock, days) ==
    { [i \in DOMAIN q |-> ResultOf(q[i])] :
        q \in Descending(rows, Selected(rows, SinceDate(clock, days))) }

(* The number of records get_recent_results(days) returns. *)
RecentCount(rows, clock, days) == Cardinality(Selected(rows, SinceDate(clock, days)))

---------------------------------------------------------------------------
(* TestAnalytics.  Each computation queries the store for its window and   *)
(* works on the list of records the query returned; the operators below    *)
(* take that list.  A float is kept exact, as a fraction num / den with    *)
(* den > 0 in lowest terms.                                                *)

RECURSIVE Gcd(_, _)
Gcd(a, b) == IF b = 0 THEN a ELSE Gcd(b, a % b)

Abs(a) == IF a < 0 THEN 0 - a ELSE a

(* n / d.  A division by 0 raises ZeroDivisionError: the fraction with    *)
(* den = 0 stands for it, and every operation on it yields it again.       *)
ZeroDivisionError == Ratio(0, 0)

Frac(n, d) ==
    IF d = 0 THEN ZeroDivisionError
    ELSE LET g == Gcd(Abs(n), Abs(d))
             s == IF d < 0 THEN 0 - 1 ELSE 1
         IN  Ratio((s * n) \div g, (s * d) \div g)

Zero == Frac(0, 1)
FracAdd(a, b) == Frac(a.num * b.den + b.num * a.den, a.den * b.den)
FracSub(a, b) == Frac(a.num * b.den - b.num * a.den, a.den * b.den)
FracMul(a, b) == Frac(a.num * b.num, a.den * b.den)
FracDiv(a, b) == Frac(a.num * b.den, a.den * b.num)
FracLess(a, b) == a.num * b.den < b.num * a.den

(* sum(values) of a list of floats; the sum is exact, so that the order of *)
(* the additions does not show.                                            *)
RECURSIVE FracSumRange(_, _, _)
FracSumRange(values, lo, hi) ==
    IF lo > hi THEN Zero
    ELSE IF lo = hi THEN values[lo]
    ELSE LET mid == (lo + hi) \div 2
         IN  FracAdd(FracSumRange(values, lo, mid), FracSumRange(values, mid + 1, hi))

FracSum(values) == FracSumRange(values, 1, Len(values))

(* The keys of a dictionary filled while iterating over a list, in         *)
(* insertion order: each key at its first occurrence in the list keys.     *)
KeysInOrder(keys) ==
    LET at == [i \in DOMAIN keys |-> [pos |-> i, key |-> keys[i]]]
        first == SelectSeq(at, LAMBDA e :
                     \A j \in 1..(e.pos - 1) : keys[j] # e.key)
    IN  [i \in DOMAIN first |-> first[i].key]

(* The test names of a list of records. *)
TestNames(results) == [i \in DOMAIN results |-> results[i].test_name]

(* sorted(seq, key=..., reverse=True): a stable sort, the elements in      *)
(* non-increasing key order and those of equal key in their order in seq.  *)
(* keys[i] is the key of seq[i].                                           *)
SortedReverse(seq, keys) ==
    LET Insert1(sorted, i) ==
            LET p == Cardinality({j \in DOMAIN sorted :
                                     ~FracLess(keys[sorted[j]], keys[i])})
            IN  SubSeq(sorted, 1, p) \o <<i>> \o SubSeq(sorted, p + 1, Len(sorted))
        F[i \in 0..Len(seq)] ==
            IF i = 0 THEN <<>> ELSE Insert1(F[i-1], i)
        order == F[Len(seq)]
    IN  [k \in DOMAIN order |-> seq[order[k]]]

(* seq[:limit] for limit >= 0 *)
Prefix(seq, limit) == SubSeq(seq, 1, IF Len(seq) < limit THEN Len(seq) ELSE limit)

(* seq[-limit:] for limit > 0 *)
Suffix(seq, limit) ==
    SubSeq(seq, IF Len(seq) > limit THEN Len(seq) - limit + 1 ELSE 1, Len(seq))

(* result.timestamp.date(): the calendar day of the wall-clock reading. *)
DateOf(dt) == dt.wall \div DayTicks

(* sorted(daily_stats.keys()) *)
RECURSIVE SortedDates(_)
SortedDates(S) ==
    IF S = {} THEN <<>>
    ELSE LET d == CHOOSE x \in S : \A y \in S : x <= y
         IN  <<d>> \o SortedDates(S \ {d})

(* Every record that did not pass counted as failed. *)
DailyStatsSkippedAsFailed(results) ==
    LET on(d) == {i \in DOMAIN results : DateOf(results[i].timestamp) = d}
    IN  [d \in {DateOf(results[i].timestamp) : i \in DOMAIN results} |->
            [total |-> Cardinality(on(d)),
             passed |-> Cardinality({i \in on(d) : results[i].status = "PASSED"}),
             failed |-> Cardinality({i \in on(d) : results[i].status # "PASSED"}),
             duration |-> 0]]

(* daily_stats: per date of the window, the counts and the summed          *)
(* duration of the records of that date.                                   *)
DailyStats(results) ==
    LET on(d) == {i \in DOMAIN results : DateOf(results[i].timestamp) = d}
        durations(d) ==
            FracSum([i \in DOMAIN results |->
                        Frac(IF i \in on(d) THEN results[i].duration ELSE 0, 1)]).num
    IN  [d \in {DateOf(results[i].timestamp) : i \in DOMAIN results} |->
            [total |-> Cardinality(on(d)),
             passed |-> Cardinality({i \in on(d) : results[i].status = "PASSED"}),
             failed |-> Cardinality({i \in on(d) : results[i].status = "FAILED"}),
             duration |-> durations(d)]]

(* The slope with the square of the sum of x left out of the denominator. *)
CalculateLinearTrendRawMoments(x_values, y_values) ==
    LET n == Len(x_values)
        sum_x == FracSum([i \in 1..n |-> Frac(x_values[i], 1)])
        sum_y == FracSum(y_values)
        sum_xy == FracSum([i \in 1..n |-> FracMul(Frac(x_values[i], 1), y_values[i])])
        sum_x2 == FracSum([i \in 1..n |-> Frac(x_values[i] * x_values[i], 1)])
    IN  IF n < 2 THEN Zero
        ELSE FracDiv(FracSub(FracMul(Frac(n, 1), sum_xy), FracMul(sum_x, sum_y)),
                     FracMul(Frac(n, 1), sum_x2))

(* _calculate_linear_trend(x_values, y_values): the least-squares slope. *)
CalculateLinearTrend(x_values, y_values) ==
    LET n == Len(x_values)
        sum_x == FracSum([i \in 1..n |-> Frac(x_values[i], 1)])
        sum_y == FracSum(y_values)
        sum_xy == FracSum([i \in 1..n |-> FracMul(Frac(x_values[i], 1), y_values[i])])
        sum_x2 == FracSum([i \in 1..n |-> Frac(x_values[i] * x_values[i], 1)])
    IN  IF n < 2 THEN Zero
        ELSE FracDiv(FracSub(FracMul(Frac(n, 1), sum_xy), FracMul(sum_x, sum_y)),
                     FracSub(FracMul(Frac(n, 1), sum_x2), FracMul(sum_x, sum_x)))

(* The 'no data' result of the trend analysis. *)
NoData == [error |-> "No test results found"]

(* The trend of a window that is not empty. *)
TrendOf(results) ==
    LET daily_stats == DailyStats(results)
        dates == SortedDates(DOMAIN daily_stats)
        success_rates ==
            [i \in DOMAIN dates |->
                LET stats == daily_stats[dates[i]]
                IN  IF stats.total > 0 THEN Frac(stats.passed * 100, stats.total)
                    ELSE Zero]
        avg_durations ==
            [i \in DOMAIN dates |->
                LET stats == daily_stats[dates[i]]
                IN  IF stats.total > 0 THEN Frac(stats.duration, stats.total)
                    ELSE Zero]
        x_values == [i \in DOMAIN dates |-> i - 1]
        several == Len(success_rates) > 1
    IN  [daily_stats |-> daily_stats,
         success_rate_trend |->
             IF several THEN CalculateLinearTrend(x_values, success_rates) ELSE Zero,
         duration_trend |->
             IF several THEN CalculateLinearTrend(x_values, avg_durations) ELSE Zero,
         average_success_rate |->
             IF Len(success_rates) > 0
             THEN FracDiv(FracSum(success_rates), Frac(Len(success_rates), 1))
             ELSE Zero,
         average_duration |->
             IF Len(avg_durations) > 0
             THEN FracDiv(FracSum(avg_durations), Frac(Len(avg_durations), 1))
             ELSE Zero]

(* An empty window answered with a zeroed trend instead of the marker. *)
CalculateTrendAnalysisZeroed(results) ==
    IF results = <<>>
    THEN [daily_stats |-> <<>>, success_rate_trend |-> Zero, duration_trend |-> Zero,
          average_success_rate |-> Zero, average_duration |-> Zero]
    ELSE TrendOf(results)

(* calculate_trend_analysis, on the records its query returned. *)
CalculateTrendAnalysis(results) ==
    IF results = <<>> THEN NoData ELSE TrendOf(results)

(* statuses.count(x) *)
Occurrences(seq, x) == Cardinality({i \in DOMAIN seq : seq[i] = x})

(* test_stats[name]: the statuses recorded for a test, in window order. *)
StatusesOf(results, name) ==
    LET of == SelectSeq(results, LAMBDA r : r.test_name = name)
    IN  [i \in DOMAIN of |-> of[i].status]

(* Only the decided executions counted against min_executions. *)
IsFlakyDecidedOnly(statuses, min_executions) ==
    /\ Occurrences(statuses, "PASSED") + Occurrences(statuses, "FAILED")
          >= min_executions
    /\ Occurrences(statuses, "PASSED") > 0
    /\ Occurrences(statuses, "FAILED") > 0

(* The test of identify_flaky_tests on the statuses of one test. *)
IsFlaky(statuses, min_executions) ==
    /\ Len(statuses) >= min_executions
    /\ Occurrences(statuses, "PASSED") > 0
    /\ Occurrences(statuses, "FAILED") > 0

(* The larger of the two counts over the executions. *)
FlakyScoreOfMajority(passed_count, failed_count, total_executions) ==
    Frac((IF passed_count > failed_count THEN passed_count ELSE failed_count) * 100,
         total_executions)

(* (min(passed_count, failed_count) / len(statuses)) * 100 *)
FlakyScore(passed_count, failed_count, total_executions) ==
    Frac((IF passed_count < failed_count THEN passed_count ELSE failed_count) * 100,
         total_executions)

(* The sort done from the other end: equal scores come out reversed. *)
SortedByScoreFromEnd(flaky_tests) ==
    LET reversed == [i \in DOMAIN flaky_tests |->
                        flaky_tests[Len(flaky_tests) + 1 - i]]
    IN  SortedReverse(reversed, [i \in DOMAIN reversed |-> reversed[i].flaky_score])

(* sorted(flaky_tests, key=lambda x: x['flaky_score'], reverse=True) *)
SortedByScore(flaky_tests) ==
    SortedReverse(flaky_tests,
                  [i \in DOMAIN flaky_tests |-> flaky_tests[i].flaky_score])

(* identify_flaky_tests, on the records its query returned. *)
IdentifyFlakyTests(results, min_executions) ==
    LET names == KeysInOrder(TestNames(results))
        flaky == SelectSeq(names,
                        LAMBDA n : IsFlaky(StatusesOf(results, n), min_executions))
        entry(n) ==
            LET statuses == StatusesOf(results, n)
                passed_count == Occurrences(statuses, "PASSED")
                failed_count == Occurrences(statuses, "FAILED")
            IN  [test_name |-> n,
                 total_executions |-> Len(statuses),
                 passed_count |-> passed_count,
                 failed_count |-> failed_count,
                 flaky_score |-> FlakyScore(passed_count, failed_count, Len(statuses))]
    IN  SortedByScore([i \in DOMAIN flaky |-> entry(flaky[i])])

(* Every record that did not pass taken for a failure. *)
NotPassedResults(results) == SelectSeq(results, LAMBDA r : r.status # "PASSED")

(* failed_results = [r for r in results if r.status == 'FAILED'] *)
FailedResults(results) == SelectSeq(results, LAMBDA r : r.status = "FAILED")

(* A dictionary of counts per label, filled over the list of labels. *)
Distribution(labels) ==
    [k \in {labels[i] : i \in DOMAIN labels} |->
        Cardinality({i \in DOMAIN labels : labels[i] = k})]

DefaultLimit == 10    \* limit: int = 10
DefaultMinExecutions == 5    \* min_executions: int = 5

(* The list cut to the limit before it is sorted. *)
GetTopFailingTestsCutFirst(failed_results, limit) ==
    LET names == KeysInOrder(TestNames(failed_results))
        entry(n) ==
            LET of == SelectSeq(failed_results, LAMBDA r : r.test_name = n)
            IN  [test_name |-> n, failure_count |-> Len(of),
                 latest_error |-> PyOr(of[Len(of)].error_message, "")]
        cut == Prefix(names, limit)
    IN  SortedReverse([i \in DOMAIN cut |-> entry(cut[i])],
                      [i \in DOMAIN cut |-> Frac(entry(cut[i]).failure_count, 1)])

(* _get_top_failing_tests(failed_results, limit): per test its number of   *)
(* records and the message of the last of them in list order.              *)
GetTopFailingTests(failed_results, limit) ==
    LET names == KeysInOrder(TestNames(failed_results))
        entry(n) ==
            LET of == SelectSeq(failed_results, LAMBDA r : r.test_name = n)
            IN  [test_name |-> n, failure_count |-> Len(of),
                 latest_error |-> PyOr(of[Len(of)].error_message, "")]
        sorted_failures ==
            SortedReverse([i \in DOMAIN names |-> entry(names[i])],
                          [i \in DOMAIN names |->
                              Frac(entry(names[i]).failure_count, 1)])
    IN  Prefix(sorted_failures, limit)

(* analyze_failure_patterns, on the records its query returned. *)
AnalyzeFailurePatterns(results) ==
    LET failed_results == FailedResults(results)
    IN  [total_failures |-> Len(failed_results),
         error_type_distribution |->
             Distribution([i \in DOMAIN failed_results |->
                              PyOr(failed_results[i].error_type, "Unknown")]),
         component_failure_distribution |->
             Distribution([i \in DOMAIN failed_results |->
                              PyOr(failed_results[i].component, "Unknown")]),
         top_failing_tests |-> GetTopFailingTests(failed_results, DefaultLimit)]

---------------------------------------------------------------------------
(* The documents the parser is run on. *)

BoundedSeq(S, n) == UNION {[1..k -> S] : k \in 0..n}

(* The dictionary holding the entries of full whose keys are in keys. *)
Attrs(full, keys) == [k \in keys |-> full[k]]
NoAttrs == Attrs(<<>>, {})

(* A <failure>, <error> or <skipped> marker: text or none, a message       *)
(* attribute (absent, empty or not), a type attribute or none.             *)
MarkerText == [failure |-> "assert failed", error |-> "exception raised",
               skipped |-> "not run"]
MarkerMessage == [failure |-> "msg-f", error |-> "msg-e", skipped |-> "msg-s"]
MarkerType == [failure |-> "AssertionError", error |-> "RuntimeError",
               skipped |-> "SkipTest"]

MarkerSet(tag) ==
    { Elem(tag, Attrs(full, keys), text, <<>>) :
        full \in [message : {"", MarkerMessage[tag]}, type : {MarkerType[tag]}],
        keys \in SUBSET {"message", "type"},
        text \in {None, MarkerText[tag]} }

OptMarker(tag) == {<<>>} \cup {<<m>> : m \in MarkerSet(tag)}

(* Test cases with every combination of markers and attributes. *)
CaseSet ==
    { Elem("testcase", Attrs(full, keys), None, f \o e \o s) :
        full \in [name : {"t1"}, time : {"abc", "1.5"}],
        keys \in SUBSET {"name", "time"},
        f \in OptMarker("failure"), e \in OptMarker("error"),
        s \in OptMarker("skipped") }

PassingCase == Elem("testcase", Attrs([name |-> "t1", time |-> "0.5"],
                                      {"name", "time"}), None, <<>>)
FailingCase == Elem("testcase", Attrs([name |-> "t2", classname |-> "pkg.Class"],
                                      {"name", "classname"}), None,
                    <<Elem("failure", NoAttrs, MarkerText["failure"], <<>>)>>)
NamelessCase == Elem("testcase", NoAttrs, None, <<>>)

(* Timestamp attributes: empty, not a date, naive, 'Z'-suffixed, with a    *)
(* fraction and an offset.                                                 *)
TimestampTexts == {<<>>, <<71>>, <<1>>, <<1, ZED>>, <<1, DOT, 1, MINUS, 1>>}

(* Suites with every combination of attributes, each owning one case. *)
SuiteSet ==
    { Elem("testsuite", Attrs(full, keys), None, <<PassingCase>>) :
        full \in [name : {"S"}, timestamp : TimestampTexts,
                  tests : {"abc", "-1", "0", "1", "2", "3"},
                  failures : {"abc", "0", "1"}, errors : {"0", "1"},
                  skipped : {"0", "1"}, time : {"abc", "1.5"}],
        keys \in SUBSET {"name", "timestamp", "tests", "failures", "errors",
                         "skipped", "time"} }

(* Documents of every shape: a root of any tag over cases and suites, the  *)
(* suites over cases.                                                      *)
InnerSuites ==
    { Elem("testsuite", Attrs([name |-> "B"], {"name"}), None, kids) :
        kids \in BoundedSeq({PassingCase, FailingCase}, MaxKids) }

ShapeSet ==
    { Elem(tag, Attrs([name |-> "A", tests |-> "2"], {"name", "tests"}), None, kids) :
        tag \in {"testsuite", "testsuites", "other"},
        kids \in BoundedSeq({PassingCase, FailingCase} \cup InnerSuites, MaxKids) }

File(root) == [wellformed |-> TRUE, root |-> root]
Malformed == [wellformed |-> FALSE, root |-> Elem("", NoAttrs, None, <<>>)]

DocSet ==
    {Malformed}
    \cup {File(Elem("testsuite", Attrs([name |-> "S"], {"name"}), None, <<c>>)) :
            c \in CaseSet}
    \cup {File(r) : r \in SuiteSet \cup ShapeSet}

(* The document whose root is a <testsuites> collection holding only the   *)
(* root of file.                                                           *)
Wrap(file) ==
    [wellformed |-> file.wellformed,
     root |-> Elem("testsuites", NoAttrs, None, <<file.root>>)]

---------------------------------------------------------------------------
(* SpecParse: parse_junit_file applied to one document. *)

ParseIdle == doc = Malformed /\ out = <<>> /\ outW = <<>>
StoreIdle == db = <<>> /\ ret = NoCall /\ appended = <<>> /\ leak = "none"
MainIdle ==
    /\ pc = "idle" /\ mode = "none" /\ format = "all" /\ files = <<>>
    /\ fileIdx = 0 /\ pending = <<>> /\ fileLog = <<>> /\ reports = <<>>
ReportIdle == window = <<>> /\ analysis = NoCall
NotStarted == [pc |-> "idle"]
ScriptsIdle == health = NotStarted /\ rbac = NotStarted

InitParse ==
    /\ doc \in DocSet
    /\ out = <<>> /\ outW = <<>>
    /\ now = ClockStart
    /\ StoreIdle /\ MainIdle /\ ReportIdle /\ ScriptsIdle

(* results, suites = JUnitParser.parse_junit_file(doc) *)
ParseDoc ==
    /\ out = <<>>
    /\ out' = <<ParseJUnitFile(doc, now)>>
    /\ UNCHANGED <<scriptVars, doc, outW, now, storeVars, mainVars, reportVars>>

(* The same call on the document wrapped in a <testsuites> root. *)
ParseWrapped ==
    /\ outW = <<>>
    /\ outW' = <<ParseJUnitFile(Wrap(doc), now)>>
    /\ UNCHANGED <<scriptVars, doc, out, now, storeVars, mainVars, reportVars>>

NextParse == ParseDoc \/ ParseWrapped

SpecParse == InitParse /\ [][NextParse]_vars

---------------------------------------------------------------------------
(* Properties of the parser, over every returned parse of SpecParse. *)

(* The parses held in the state: of the document and of its wrapping. *)
Parses == {out[i] : i \in DOMAIN out} \cup {outW[i] : i \in DOMAIN outW}

(* The suites of the document a parse walked, and their <testcase>         *)
(* children in the order their records are returned.                       *)
WalkedSuites == Testsuites(doc.root)
WalkedCases ==
    LET F[i \in 0..Len(WalkedSuites)] ==
            IF i = 0 THEN <<>>
            ELSE F[i-1] \o FindChildren(WalkedSuites[i], "testcase")
    IN  F[Len(WalkedSuites)]

(* The value of a count attribute as the claim reads it: 0 when absent. *)
CountOf(e, key) == IF key \in DOMAIN e.attrib THEN IntTable[e.attrib[key]] ELSE 0

(* C4: every suite summary has passed = tests - failures - errors -        *)
(* skipped, total = passed + failed + skipped, and success_rate =          *)
(* passed/total*100 when total > 0 and 0 when total = 0.                   *)
C4_SuiteArithmetic ==
    \A k \in DOMAIN out :
        ~out[k].raised =>
            \A i \in DOMAIN out[k].suite_results :
                LET s == out[k].suite_results[i]
                    e == WalkedSuites[i]
                IN  /\ s.passed_tests = CountOf(e, "tests") - CountOf(e, "failures")
                                        - CountOf(e, "errors") - CountOf(e, "skipped")
                    /\ s.total_tests = s.passed_tests + s.failed_tests + s.skipped_tests
                    /\ s.total_tests > 0 =>
                          /\ s.success_rate.den # 0
                          /\ s.success_rate.num * s.total_tests
                                = s.passed_tests * 100 * s.success_rate.den
                    /\ s.total_tests = 0 => s.success_rate.num = 0

(* C4 witness: a parsed suite with tests=3, one failure, nothing skipped:  *)
(* 2 passed, success rate 200/3.                                           *)
C4_Witness ==
    \E k \in DOMAIN out :
        /\ ~out[k].raised
        /\ \E i \in DOMAIN out[k].suite_results :
              LET s == out[k].suite_results[i]
              IN  /\ s.total_tests = 3 /\ s.failed_tests = 1 /\ s.skipped_tests = 0
                  /\ s.passed_tests = 2 /\ s.success_rate = Ratio(200, 3)

(* What the claim calls a marker's message and kind. *)
MarkerMessageOf(m) ==
    IF m.text # None THEN m.text
    ELSE IF "message" \in DOMAIN m.attrib THEN m.attrib["message"] ELSE None
MarkerKindOf(m, fallback) ==
    IF "type" \in DOMAIN m.attrib THEN m.attrib["type"] ELSE fallback
FirstMarker(tc, tag) ==
    tc.children[CHOOSE i \in DOMAIN tc.children :
                    /\ tc.children[i].tag = tag
                    /\ \A j \in 1..(i-1) : tc.children[j].tag # tag]
Marked(tc, tag) == \E i \in DOMAIN tc.children : tc.children[i].tag = tag

(* C5: status by fixed precedence: FAILED with the failure marker's        *)
(* message and kind if a failure marker is present, else FAILED with the   *)
(* error marker's if an error marker is present, else SKIPPED if a skipped *)
(* marker is present, else PASSED; the fallback kinds are 'Failure',       *)
(* 'Error' and 'Skipped'.                                                  *)
C5_StatusPrecedence ==
    \A k \in DOMAIN out :
        ~out[k].raised =>
            /\ Len(out[k].results) = Len(WalkedCases)
            /\ \A i \in DOMAIN out[k].results :
                  LET r == out[k].results[i]
                      tc == WalkedCases[i]
                  IN  IF Marked(tc, "failure")
                      THEN /\ r.status = "FAILED"
                           /\ r.error_message = MarkerMessageOf(FirstMarker(tc, "failure"))
                           /\ r.error_type = MarkerKindOf(FirstMarker(tc, "failure"), "Failure")
                      ELSE IF Marked(tc, "error")
                      THEN /\ r.status = "FAILED"
                           /\ r.error_message = MarkerMessageOf(FirstMarker(tc, "error"))
                           /\ r.error_type = MarkerKindOf(FirstMarker(tc, "error"), "Error")
                      ELSE IF Marked(tc, "skipped")
                      THEN r.status = "SKIPPED" /\ r.error_type = "Skipped"
                      ELSE r.status = "PASSED"

(* C5 witness: a case carrying all three markers was parsed and came out   *)
(* FAILED with the failure marker's text.                                  *)
C5_Witness ==
    \E k \in DOMAIN out :
        /\ ~out[k].raised
        /\ \E i \in DOMAIN out[k].results :
              /\ i \in DOMAIN WalkedCases
              /\ Marked(WalkedCases[i], "failure")
              /\ Marked(WalkedCases[i], "error")
              /\ Marked(WalkedCases[i], "skipped")
              /\ out[k].results[i].status = "FAILED"
              /\ out[k].results[i].error_message = MarkerText["failure"]

(* C6: status determines the failure detail of every parsed record:        *)
(* PASSED has neither message nor kind, FAILED has both (also when the     *)
(* marker has no text and no message attribute), SKIPPED has kind          *)
(* 'Skipped'.                                                              *)
C6_StatusDeterminesDetail ==
    \A o \in Parses :
        \A i \in DOMAIN o.results :
            LET r == o.results[i]
            IN  /\ r.status = "PASSED" =>
                      r.error_message = None /\ r.error_type = None
                /\ r.status = "FAILED" =>
                      r.error_message # None /\ r.error_type # None
                /\ r.status = "SKIPPED" => r.error_type = "Skipped"

(* C7: a document whose root is a suite container and the document whose   *)
(* root is a collection holding only that container parse to the same      *)
(* records and the same suite summaries.                                   *)
C7_RootShapesAgree ==
    (doc.wellformed /\ doc.root.tag = "testsuite" /\ out # <<>> /\ outW # <<>>)
        => /\ out[1].raised = outW[1].raised
           /\ out[1].results = outW[1].results
           /\ out[1].suite_results = outW[1].suite_results

(* C8: on a well-formed document the parser returns without raising, with  *)
(* 0 for an absent or non-numeric count, 0.0 for an absent or non-numeric  *)
(* time, the current time for an absent or unparsable timestamp and        *)
(* 'Unknown Suite' for an absent suite name.                               *)
C8_FieldDefaultsNeverFatal ==
    \A k \in DOMAIN out :
        doc.wellformed =>
            /\ ~out[k].raised
            /\ \A i \in DOMAIN out[k].suite_results :
                  LET s == out[k].suite_results[i]
                      e == WalkedSuites[i]
                      numeric(key, table) ==
                          key \in DOMAIN e.attrib /\ e.attrib[key] \in DOMAIN table
                  IN  /\ ~numeric("tests", IntTable) => s.total_tests = 0
                      /\ ~numeric("skipped", IntTable) => s.skipped_tests = 0
                      /\ (~numeric("failures", IntTable) /\ ~numeric("errors", IntTable))
                            => s.failed_tests = 0
                      /\ ~numeric("time", FloatTable) => s.duration = 0
                      /\ "name" \notin DOMAIN e.attrib => s.suite_name = "Unknown Suite"
                      /\ ("timestamp" \notin DOMAIN e.attrib
                          \/ ~FromIsoFormat(ReplaceZ(Get(e, "timestamp", <<>>))).ok)
                            => s.timestamp = DatetimeNow(now)

---------------------------------------------------------------------------
(* SpecStore: calls of store_test_result and get_recent_results on an      *)
(* initially empty database, while time passes.                            *)

(* The TestResults handed to store_test_result. *)
TimeSet ==
    { Naive(w, u) : w \in 1..2, u \in 0..1 }
    \cup { Aware(w, 0, o) : w \in 1..2, o \in {0 - 1, 1} }

NewResult(name, status, ts) ==
    [test_name |-> name, test_suite |-> "S", status |-> status,
     duration |-> 15, timestamp |-> ts,
     error_message |-> IF status = "FAILED" THEN "assert failed" ELSE None,
     error_type |-> IF status = "FAILED" THEN "Failure" ELSE None,
     test_file |-> "pkg.Class", environment |-> Environment, component |-> None]

ResultSet ==
    { NewResult(name, status, ts) :
        name \in {"t1", None}, status \in {"PASSED", "FAILED"}, ts \in TimeSet }

InitStore ==
    /\ ParseIdle /\ MainIdle /\ ReportIdle /\ ScriptsIdle
    /\ now = ClockStart
    /\ db = <<>> /\ ret = NoCall /\ appended = <<>> /\ leak = "none"

(* Time passes. *)
Tick ==
    /\ now < MaxNow
    /\ now' = now + 1
    /\ ret' = NoCall
    /\ UNCHANGED <<scriptVars, parseVars, reportVars, db, appended, leak, mainVars>>

(* The garbage collector finalizes the connections left open. *)
CollectGarbage ==
    /\ leak # "none"
    /\ leak' = "none"
    /\ ret' = NoCall
    /\ UNCHANGED <<scriptVars, parseVars, reportVars, now, db, appended, mainVars>>

(* data_manager.store_test_result(result) *)
StoreTestResult ==
    /\ Len(db) < MaxRows
    /\ \E result \in ResultSet :
          LET o == StoreOutcome(db, leak, result)
          IN  /\ db' = o.db
              /\ leak' = o.leak
              /\ ret' = [op |-> "store", raised |-> o.raised]
              /\ appended' = IF o.raised = "" THEN Append(appended, result)
                             ELSE appended
    /\ UNCHANGED <<scriptVars, parseVars, reportVars, now, mainVars>>

(* results = data_manager.get_recent_results(days) *)
GetRecentResults ==
    /\ \E days \in 0..MaxDays :
          \E results \in RecentResults(db, now, days) :
              ret' = [op |-> "query", days |-> days,
                      cutoff |-> DatetimeNow(now - 2 * DayTicks * days),
                      results |-> results]
    /\ UNCHANGED <<scriptVars, parseVars, reportVars, now, db, appended, leak, mainVars>>

NextStore == Tick \/ CollectGarbage \/ StoreTestResult \/ GetRecentResults

SpecStore == InitStore /\ [][NextStore]_vars

---------------------------------------------------------------------------
(* Spec: one run of main(): the ingestion of args.input into the store,    *)
(* then the reports.                                                       *)

SuiteOf(attrib, keys, kids) == Elem("testsuite", Attrs(attrib, keys), None, kids)

(* The files of the input: a good one with a dated suite, one that is not  *)
(* XML, one with a non-numeric count, one with a case without a name       *)
(* between two others, one whose suite carries no timestamp.               *)
DatedFile ==
    File(SuiteOf([name |-> "S", timestamp |-> <<3, PLUS, 0>>], {"name", "timestamp"},
                 <<PassingCase, FailingCase>>))
BadCountFile ==
    File(SuiteOf([name |-> "S", tests |-> "abc"], {"name", "tests"}, <<PassingCase>>))
NamelessFile ==
    File(SuiteOf([name |-> "N"], {"name"}, <<PassingCase, NamelessCase, FailingCase>>))
UndatedFile == File(SuiteOf([name |-> "U"], {"name"}, <<PassingCase>>))

MainFiles == {DatedFile, Malformed, BadCountFile, NamelessFile, UndatedFile}

(* args.days *)
ArgsDays == MaxDays

Init ==
    /\ ParseIdle /\ ReportIdle /\ ScriptsIdle
    /\ now = ClockStart
    /\ db = <<>> /\ ret = NoCall /\ appended = <<>> /\ leak = "none"
    /\ mode \in {"none", "single", "batch"}
    /\ format \in {"html", "json", "all"}
    /\ files \in IF mode = "none" THEN {<<>>}
                 ELSE IF mode = "single" THEN {<<f>> : f \in MainFiles}
                 ELSE BoundedSeq(MainFiles, MaxFiles)
    /\ pc = "ingest" /\ fileIdx = 1
    /\ pending = <<>> /\ fileLog = <<>> /\ reports = <<>>

LogEntry(end, parsed, rows) == [end |-> end, parsed |-> parsed, rows |-> rows]
EndLog(end) == [fileLog EXCEPT ![Len(fileLog)].end = end]

(* A parse error of a file of the directory ends the whole run. *)
ParseFileAborting ==
    /\ pc = "ingest" /\ fileIdx <= Len(files)
    /\ LET p == ParseJUnitFile(files[fileIdx], now)
       IN  IF p.raised
           THEN /\ fileLog' = Append(fileLog, LogEntry("parse_failed", <<>>, <<>>))
                /\ pc' = "raised"
                /\ UNCHANGED <<fileIdx, pending>>
           ELSE /\ fileLog' = Append(fileLog, LogEntry("storing", p.results, <<>>))
                /\ pending' = p.results
                /\ pc' = "store"
                /\ UNCHANGED fileIdx
    /\ UNCHANGED <<scriptVars, parseVars, reportVars, now, storeVars, mode, format, files, reports>>

(* test_results, suite_results = JUnitParser.parse_junit_file(file): a     *)
(* raise ends the run in single-file mode and is logged in directory mode, *)
(* where the loop goes on with the next file.                              *)
ParseFile ==
    /\ pc = "ingest" /\ fileIdx <= Len(files)
    /\ LET p == ParseJUnitFile(files[fileIdx], now)
       IN  IF p.raised
           THEN /\ fileLog' = Append(fileLog, LogEntry("parse_failed", <<>>, <<>>))
                /\ IF mode = "single"
                   THEN pc' = "raised" /\ UNCHANGED fileIdx
                   ELSE pc' = "ingest" /\ fileIdx' = fileIdx + 1
                /\ UNCHANGED pending
           ELSE /\ fileLog' = Append(fileLog, LogEntry("storing", p.results, <<>>))
                /\ pending' = p.results
                /\ pc' = "store"
                /\ UNCHANGED fileIdx
    /\ UNCHANGED <<scriptVars, parseVars, reportVars, now, storeVars, mode, format, files, reports>>

(* data_manager.store_test_result(result) for the next record of the file: *)
(* a raise ends the run in single-file mode; in directory mode it is       *)
(* caught by the handler of the parse errors, the rest of the file is      *)
(* dropped and the loop goes on with the next file.                        *)
StoreNext ==
    /\ pc = "store" /\ pending # <<>>
    /\ LET o == StoreOutcome(db, leak, Head(pending))
       IN  /\ db' = o.db
           /\ leak' = o.leak
           /\ IF o.raised = ""
              THEN /\ pending' = Tail(pending)
                   /\ fileLog' = [fileLog EXCEPT ![Len(fileLog)].rows =
                                     Append(@, Head(pending))]
                   /\ UNCHANGED <<pc, fileIdx>>
              ELSE /\ fileLog' = EndLog("store_failed")
                   /\ IF mode = "single"
                      THEN pc' = "raised" /\ UNCHANGED <<fileIdx, pending>>
                      ELSE /\ pc' = "ingest"
                           /\ fileIdx' = fileIdx + 1
                           /\ pending' = <<>>
    /\ UNCHANGED <<scriptVars, parseVars, reportVars, now, ret, appended, mode, format, files, reports>>

(* Every record of the file is stored: on to the next file. *)
FileDone ==
    /\ pc = "store" /\ pending = <<>>
    /\ fileLog' = EndLog("stored")
    /\ fileIdx' = fileIdx + 1
    /\ pc' = "ingest"
    /\ UNCHANGED <<scriptVars, parseVars, reportVars, now, storeVars, mode, format, files, pending, reports>>

(* The input is ingested: on to the reports args.format asks for. *)
IngestDone ==
    /\ pc = "ingest" /\ fileIdx > Len(files)
    /\ pc' = IF format \in {"html", "all"} THEN "html" ELSE "json"
    /\ UNCHANGED <<scriptVars, parseVars, reportVars, now, storeVars, mode, format, files, fileIdx,
                   pending, fileLog, reports>>

(* generator.generate_html_report(path, args.days): the store is queried   *)
(* by the generator and by each analysis.  On an empty window the trend    *)
(* analysis returns {"error": ...}, the template compares its missing      *)
(* success_rate_trend with 0, and rendering raises.                        *)
GenerateHtml ==
    /\ pc = "html"
    /\ LET total_tests == RecentCount(db, now, ArgsDays)
       IN  IF total_tests = 0
           THEN pc' = "raised" /\ UNCHANGED reports
           ELSE /\ reports' = Append(reports, [format |-> "html",
                                               total_tests |-> total_tests])
                /\ pc' = IF format = "all" THEN "json" ELSE "done"
    /\ UNCHANGED <<scriptVars, parseVars, reportVars, now, storeVars, mode, format, files, fileIdx,
                   pending, fileLog>>

(* generator.generate_json_report(path, args.days).  On a window that is  *)
(* not empty the trend analysis returns daily_stats, a dictionary keyed by *)
(* datetime.date, json.dumps raises TypeError on it and no file is written. *)
GenerateJson ==
    /\ pc = "json"
    /\ LET total_tests == RecentCount(db, now, ArgsDays)
       IN  IF total_tests # 0
           THEN pc' = "raised" /\ UNCHANGED reports
           ELSE /\ reports' = Append(reports, [format |-> "json",
                                               total_tests |-> total_tests])
                /\ pc' = "done"
    /\ UNCHANGED <<scriptVars, parseVars, reportVars, now, storeVars, mode, format, files, fileIdx,
                   pending, fileLog>>

Next ==
    \/ Tick \/ CollectGarbage
    \/ ParseFile \/ StoreNext \/ FileDone \/ IngestDone
    \/ GenerateHtml \/ GenerateJson

Spec == Init /\ [][Next]_vars

---------------------------------------------------------------------------
(* ReportGenerator.  Each report queries the store and runs the three      *)
(* analyses; the operators below take the list of records of the window.   *)

RawLimit == 100     \* results[-100:]
FlakyRows == 10     \* flaky_tests[:10]

(* The summary figures with the ratios computed for an empty window too. *)
SummaryUnguarded(results) ==
    LET total_tests == Len(results)
        passed_tests == Len(SelectSeq(results, LAMBDA r : r.status = "PASSED"))
        total_duration ==
            FracSum([i \in DOMAIN results |-> Frac(results[i].duration, 1)])
    IN  [total_tests |-> total_tests,
         passed_tests |-> passed_tests,
         failed_tests |-> Len(SelectSeq(results, LAMBDA r : r.status = "FAILED")),
         skipped_tests |-> Len(SelectSeq(results, LAMBDA r : r.status = "SKIPPED")),
         success_rate |-> Frac(passed_tests * 100, total_tests),
         total_duration |-> total_duration,
         average_duration |-> FracDiv(total_duration, Frac(total_tests, 1))]

(* The summary figures both reports compute from the window. *)
Summary(results) ==
    LET total_tests == Len(results)
        passed_tests == Len(SelectSeq(results, LAMBDA r : r.status = "PASSED"))
        total_duration ==
            FracSum([i \in DOMAIN results |-> Frac(results[i].duration, 1)])
    IN  [total_tests |-> total_tests,
         passed_tests |-> passed_tests,
         failed_tests |-> Len(SelectSeq(results, LAMBDA r : r.status = "FAILED")),
         skipped_tests |-> Len(SelectSeq(results, LAMBDA r : r.status = "SKIPPED")),
         success_rate |-> IF total_tests > 0
                          THEN Frac(passed_tests * 100, total_tests) ELSE Zero,
         total_duration |-> total_duration,
         average_duration |-> IF total_tests > 0
                              THEN FracDiv(total_duration, Frac(total_tests, 1))
                              ELSE Zero]

(* The template's narration of the success-rate slope. *)
SuccessNarration(trend) ==
    IF FracLess(Zero, trend) THEN "Improving"
    ELSE IF FracLess(trend, Zero) THEN "Declining"
    ELSE "Stable"

(* The branches of the duration narration taken for the other sign. *)
DurationNarrationInverted(trend) ==
    IF FracLess(Zero, trend) THEN "Faster"
    ELSE IF FracLess(trend, Zero) THEN "Slower"
    ELSE "Stable"

(* The template's narration of the duration slope. *)
DurationNarration(trend) ==
    IF FracLess(trend, Zero) THEN "Faster"
    ELSE IF FracLess(Zero, trend) THEN "Slower"
    ELSE "Stable"

(* generate_html_report: what the template renders, or the exception       *)
(* raised.  The 'no data' result of the trend analysis has no              *)
(* success_rate_trend; the template's comparison of the undefined value    *)
(* with 0 raises, and no file is written.                                  *)
HtmlReport(results) ==
    LET trend_analysis == CalculateTrendAnalysis(results)
        flaky_tests == IdentifyFlakyTests(results, DefaultMinExecutions)
        failure_patterns == AnalyzeFailurePatterns(results)
        summary == Summary(results)
    IN  IF "success_rate_trend" \notin DOMAIN trend_analysis
        THEN [raised |-> "UndefinedError"]
        ELSE [raised |-> "",
              total_tests |-> summary.total_tests,
              success_rate |-> summary.success_rate,
              failed_tests |-> summary.failed_tests,
              avg_duration |-> summary.average_duration,
              flaky_count |-> Len(flaky_tests),
              flaky_rows |-> Prefix(flaky_tests, FlakyRows),
              top_failing_tests |-> failure_patterns.top_failing_tests,
              success_narrations |->
                  <<SuccessNarration(trend_analysis.success_rate_trend)>>,
              duration_narrations |->
                  <<DurationNarration(trend_analysis.duration_trend)>>]

(* json.dumps(report_data, indent=2, default=str) raises TypeError on a    *)
(* dictionary with a key that is not a str, int, float, bool or None: the  *)
(* keys of daily_stats are datetime.date objects.                          *)
DumpsRaises(report_data) ==
    /\ "daily_stats" \in DOMAIN report_data.trends
    /\ DOMAIN report_data.trends.daily_stats # {}

(* generate_json_report: the report data, and the exception raised when    *)
(* it is serialized ("" when the file is written).                         *)
JsonOutcome(report_data) ==
    [raised |-> IF DumpsRaises(report_data) THEN "TypeError" ELSE "",
     report_data |-> report_data]

(* report_data, from the records returned by the generator's query and by  *)
(* the queries of the three analyses.                                      *)
ReportData(results, trend_results, flaky_results, failure_results) ==
    [summary |-> Summary(results),
     trends |-> CalculateTrendAnalysis(trend_results),
     flaky_tests |-> IdentifyFlakyTests(flaky_results, DefaultMinExecutions),
     failure_patterns |-> AnalyzeFailurePatterns(failure_results),
     test_results |-> Suffix(results, RawLimit)]

(* The report when the four queries return the same list. *)
JsonReport(results) == JsonOutcome(ReportData(results, results, results, results))

---------------------------------------------------------------------------
(* SpecAnalytics: one call of an analysis or of a report generator on a    *)
(* window, the list of records its query returned, or of the parser on a   *)
(* file.  A window is in the     *)
(* order of the query: no record before one with a greater timestamp text. *)

MaxRuns  == 2     \* records of one status a test has in a block window
MaxNames == 12    \* distinct failing tests of a window

IsQueryOrder(w) ==
    \A i, j \in DOMAIN w :
        i < j => ~StrLess(IsoFormat(w[i].timestamp), IsoFormat(w[j].timestamp))

Passed  == [status |-> "PASSED", error_message |-> None, error_type |-> None,
            component |-> None]
Skipped == [status |-> "SKIPPED", error_message |-> None, error_type |-> "Skipped",
            component |-> None]
FailedA == [status |-> "FAILED", error_message |-> "assert failed",
            error_type |-> "AssertionError", component |-> "kafka"]
FailedB == [status |-> "FAILED", error_message |-> None, error_type |-> None,
            component |-> None]

(* A TestResult of the window. *)
WinResult(name, kind, ts, duration) ==
    [test_name |-> name, test_suite |-> "S", status |-> kind.status,
     duration |-> duration, timestamp |-> ts,
     error_message |-> kind.error_message, error_type |-> kind.error_type,
     test_file |-> "pkg.Class", environment |-> Environment,
     component |-> kind.component]

NameOf(i) == "t" \o ToString(i)

(* k copies of a record *)
Copies(k, r) == [i \in 1..k |-> r]

(* Short windows of any composition: two tests, every kind of record,      *)
(* three timestamps of which two fall on one day.                          *)
FreeWindows ==
    LET recs == { WinResult(NameOf(n), kind, Naive(w, 0), 15) :
                    n \in 1..2, kind \in {Passed, Skipped, FailedA, FailedB},
                    w \in {DayTicks, DayTicks + 1, 2 * DayTicks} }
    IN  { w \in BoundedSeq(recs, MaxRows) : IsQueryOrder(w) }

(* Windows of two tests run in either order under one timestamp, each      *)
(* with some passed, some failed and some skipped executions.              *)
RunWindows ==
    LET runs(n, p, f, s) ==
            Copies(p, WinResult(NameOf(n), Passed, Naive(DayTicks, 0), 15))
            \o Copies(f, WinResult(NameOf(n), IF n = 1 THEN FailedA ELSE FailedB,
                                   Naive(DayTicks, 0), 15))
            \o Copies(s, WinResult(NameOf(n), Skipped, Naive(DayTicks, 0), 15))
        C == 0..MaxRuns
    IN  { runs(n1, p1, f1, s1) \o runs(3 - n1, p2, f2, s2) :
            n1 \in 1..2, p1 \in C, f1 \in C, s1 \in 0..1,
            p2 \in C, f2 \in C, s2 \in 0..1 }

(* Windows over consecutive days, newest day first: per day at most one    *)
(* passed and one failed record, all of one duration.                      *)
DayShapes ==
    { [passed |-> p, failed |-> f, duration |-> d] :
        p \in 0..1, f \in 0..1, d \in {5, 15, 25} }

RECURSIVE DayWindowsUpTo(_)
DayWindowsUpTo(day) ==
    IF day < 0 THEN {<<>>}
    ELSE { Copies(s.passed, WinResult("t1", Passed, Naive(day * DayTicks, 0), s.duration))
           \o Copies(s.failed, WinResult("t2", FailedA, Naive(day * DayTicks, 0), s.duration))
           \o older :
             s \in DayShapes, older \in DayWindowsUpTo(day - 1) }

DayWindows == DayWindowsUpTo(MaxDays + 1)

(* Windows of many failing tests, one record each, one of them (hot, if    *)
(* not 0) with two older records more.                                     *)
ManyNamesWindows ==
    { [i \in 1..k |-> WinResult(NameOf(i), FailedA, Naive(2 * DayTicks, 0), 15)]
      \o (IF hot = 0 THEN <<>>
          ELSE Copies(2, WinResult(NameOf(hot), FailedB, Naive(DayTicks, 0), 15))) :
        k \in 0..MaxNames, hot \in 0..MaxNames }

(* Windows around the size of the raw-record section of the JSON report:   *)
(* one or two records of the newest timestamp, the others older.           *)
LongWindows ==
    { Copies(h, WinResult("t1", Passed, Naive(2 * DayTicks, 0), 15))
      \o Copies(n - h, WinResult("t2", Passed, Naive(DayTicks, 0), 15)) :
        h \in 1..2, n \in (RawLimit - 1)..(RawLimit + 2) }

WindowSet ==
    FreeWindows \cup RunWindows \cup DayWindows \cup ManyNamesWindows \cup LongWindows

(* The values of min_executions a caller passes. *)
MinExecutionsSet == {0, 1, 2, 3, DefaultMinExecutions}

(* The files handed to the parser: suites with a count of tests below,    *)
(* at and above 0, a suite without counts, a file that is not XML.         *)
CountedFiles ==
    { File(SuiteOf([name |-> "S", tests |-> t, failures |-> "1"],
                   {"name", "tests", "failures"}, <<PassingCase>>)) :
        t \in {"-1", "0", "2", "3"} }
ParsedFiles == CountedFiles \cup {UndatedFile, Malformed}

InitAnalytics ==
    /\ ParseIdle /\ StoreIdle /\ MainIdle /\ ScriptsIdle
    /\ now = ClockStart
    /\ window \in WindowSet
    /\ analysis = NoCall

(* analytics.calculate_trend_analysis(days) *)
CallTrendAnalysis ==
    /\ analysis = NoCall
    /\ analysis' = [op |-> "trend", result |-> CalculateTrendAnalysis(window)]
    /\ UNCHANGED <<scriptVars, parseVars, now, storeVars, mainVars, window>>

(* analytics.identify_flaky_tests(days, min_executions) *)
CallFlakyTests ==
    /\ analysis = NoCall
    /\ \E min_executions \in MinExecutionsSet :
          analysis' = [op |-> "flaky", min_executions |-> min_executions,
                       result |-> IdentifyFlakyTests(window, min_executions)]
    /\ UNCHANGED <<scriptVars, parseVars, now, storeVars, mainVars, window>>

(* analytics.analyze_failure_patterns(days) *)
CallFailurePatterns ==
    /\ analysis = NoCall
    /\ analysis' = [op |-> "failures", result |-> AnalyzeFailurePatterns(window)]
    /\ UNCHANGED <<scriptVars, parseVars, now, storeVars, mainVars, window>>

(* generator.generate_html_report(path, days) *)
CallHtmlReport ==
    /\ analysis = NoCall
    /\ analysis' = [op |-> "html", result |-> HtmlReport(window)]
    /\ UNCHANGED <<scriptVars, parseVars, now, storeVars, mainVars, window>>

(* generator.generate_json_report(path, days) *)
CallJsonReport ==
    /\ analysis = NoCall
    /\ analysis' = [op |-> "json", result |-> JsonReport(window)]
    /\ UNCHANGED <<scriptVars, parseVars, now, storeVars, mainVars, window>>

(* JUnitParser.parse_junit_file(file) *)
CallParseFile ==
    /\ analysis = NoCall
    /\ \E file \in ParsedFiles :
          analysis' = [op |-> "parse", result |-> ParseJUnitFile(file, now)]
    /\ UNCHANGED <<scriptVars, parseVars, now, storeVars, mainVars, window>>

NextAnalytics ==
    \/ CallTrendAnalysis \/ CallFlakyTests \/ CallFailurePatterns
    \/ CallHtmlReport \/ CallJsonReport \/ CallParseFile

SpecAnalytics == InitAnalytics /\ [][NextAnalytics]_vars

---------------------------------------------------------------------------
(* SpecReport: runs of generate_json_report, one after the other, on a     *)
(* store other writers append to while time passes.  A run makes four      *)
(* queries, the generator's own and one in each analysis, then serializes  *)
(* the report; the file of an earlier run is overwritten.  In this         *)
(* specification analysis holds the run under way and reports the outcome  *)
(* of the last run that ended.                                             *)

(* The records other writers append: one that leaves the window of         *)
(* ArgsDays days when the clock advances, with a status of the parser and   *)
(* with one of another writer, and one that stays in it.                   *)
IngestSet ==
    { NewResult("t1", "FAILED", Naive(0, 1)),
      NewResult("t1", "ERROR", Naive(0, 1)),
      NewResult("t1", "PASSED", Naive(DayTicks, 0)) }

InitReport ==
    /\ ParseIdle /\ StoreIdle /\ MainIdle /\ ReportIdle /\ ScriptsIdle
    /\ now = ClockStart

(* data_manager.store_test_result(result), by a writer of the store *)
AppendRecord ==
    /\ Len(db) < MaxRows
    /\ \E result \in IngestSet :
          LET o == StoreOutcome(db, leak, result)
          IN  db' = o.db /\ leak' = o.leak
    /\ UNCHANGED <<scriptVars, parseVars, reportVars, now, ret, appended, mainVars>>

(* results = self.data_manager.get_recent_results(days) *)
JsonQueryResults ==
    /\ analysis = NoCall
    /\ \E results \in RecentResults(db, now, ArgsDays) :
          analysis' = [op |-> "json", stage |-> "trend", days |-> ArgsDays,
                       db |-> db, results |-> results, trend_results |-> <<>>,
                       flaky_results |-> <<>>, failure_results |-> <<>>]
    /\ UNCHANGED <<scriptVars, parseVars, window, now, storeVars, mainVars>>

(* trend_analysis = self.analytics.calculate_trend_analysis(days) *)
JsonTrendAnalysis ==
    /\ analysis.op = "json" /\ analysis.stage = "trend"
    /\ \E results \in RecentResults(db, now, analysis.days) :
          analysis' = [analysis EXCEPT !.stage = "flaky", !.trend_results = results]
    /\ UNCHANGED <<scriptVars, parseVars, window, now, storeVars, mainVars>>

(* flaky_tests = self.analytics.identify_flaky_tests(days) *)
JsonFlakyTests ==
    /\ analysis.op = "json" /\ analysis.stage = "flaky"
    /\ \E results \in RecentResults(db, now, analysis.days) :
          analysis' = [analysis EXCEPT !.stage = "failures", !.flaky_results = results]
    /\ UNCHANGED <<scriptVars, parseVars, window, now, storeVars, mainVars>>

(* failure_patterns = self.analytics.analyze_failure_patterns(days) *)
JsonFailurePatterns ==
    /\ analysis.op = "json" /\ analysis.stage = "failures"
    /\ \E results \in RecentResults(db, now, analysis.days) :
          analysis' = [analysis EXCEPT !.stage = "write", !.failure_results = results]
    /\ UNCHANGED <<scriptVars, parseVars, window, now, storeVars, mainVars>>

(* report_data = {...}; Path(output_path).write_text(json.dumps(...)) *)
JsonWrite ==
    /\ analysis.op = "json" /\ analysis.stage = "write"
    /\ LET o == JsonOutcome(ReportData(analysis.results, analysis.trend_results,
                                       analysis.flaky_results,
                                       analysis.failure_results))
       IN  reports' = <<[format |-> "json", days |-> analysis.days,
                         db |-> analysis.db, quiet |-> analysis.db = db,
                         raised |-> o.raised, report_data |-> o.report_data]>>
    /\ analysis' = NoCall
    /\ UNCHANGED <<scriptVars, parseVars, window, now, storeVars, pc, mode, format, files,
                   fileIdx, pending, fileLog>>

NextReport ==
    \/ Tick \/ AppendRecord
    \/ JsonQueryResults \/ JsonTrendAnalysis \/ JsonFlakyTests
    \/ JsonFailurePatterns \/ JsonWrite

SpecReport == InitReport /\ [][NextReport]_vars

---------------------------------------------------------------------------
(* deployment-health-check.py: DeploymentHealthChecker.run_health_checks   *)
(* and main.  A check is kept as its name, status and critical mark; a     *)
(* topic name is the sequence of its words.                                *)

MaxExpected == 1
MaxConnectors == 1

HealthCheck(name, status, critical) ==
    [name |-> name, status |-> status, critical |-> critical]

TopicUniverse == { <<"prod", "orders">>, <<"prod", "metrics">> }

(* admin_client.list_topics(timeout=10): raises, or the cluster metadata *)
ListTopicsSet ==
    {[raised |-> TRUE, topics |-> {}]}
        \cup {[raised |-> FALSE, topics |-> t] : t \in SUBSET TopicUniverse}

(* substring in topic_name *)
HasWord(topic, word) == \E i \in DOMAIN topic : topic[i] = word

(* os.getenv(...): the variables the checks read, TRUE when set and not    *)
(* empty                                                                   *)
HealthEnvSet ==
    [SCHEMA_REGISTRY_URL : BOOLEAN, SUMO_LOGIC_ENDPOINT : BOOLEAN,
     CONFLUENT_CLOUD_API_KEY : BOOLEAN]

CheckClusterConnectivity(metadata) ==
    IF metadata.raised
    THEN HealthCheck("cluster_connectivity", "FAIL", TRUE)
    ELSE HealthCheck("cluster_connectivity", "PASS", TRUE)

CheckTopics(metadata, expected_count) ==
    IF metadata.raised
    THEN HealthCheck("topics_validation", "FAIL", FALSE)
    ELSE HealthCheck("topics_validation",
                     IF Cardinality(metadata.topics) >= expected_count
                     THEN "PASS" ELSE "FAIL",
                     FALSE)

(* _call_confluent_api: {'error': ...} on a failed call, and when the API  *)
(* key is not set (_get_auth_header raises inside its try); else the body  *)
(* of the response, a list of connector names or another JSON object.      *)
ApiResponseSet(env) ==
    {[kind |-> "error", count |-> 0]}
        \cup (IF env.CONFLUENT_CLOUD_API_KEY
              THEN {[kind |-> k, count |-> n] :
                        k \in {"list", "dict"}, n \in 0..MaxConnectors}
              ELSE {})

CheckConnectors(api_response, expected_count) ==
    IF api_response.count # 0 /\ api_response.kind # "error"
    THEN IF api_response.kind = "dict"
         THEN \* api_response[:3] raises TypeError
              HealthCheck("connectors_validation", "FAIL", FALSE)
         ELSE HealthCheck("connectors_validation",
                          IF api_response.count >= expected_count
                          THEN "PASS" ELSE "WARN",
                          FALSE)
    ELSE HealthCheck("connectors_validation", "FAIL", FALSE)

(* requests.get(f'{schema_registry_url}/subjects', timeout=10) *)
HttpResponseSet ==
    {[raised |-> TRUE, status_code |-> 0],
     [raised |-> FALSE, status_code |-> 200],
     [raised |-> FALSE, status_code |-> 503]}

CheckSchemaRegistry(env, response) ==
    IF ~env.SCHEMA_REGISTRY_URL
    THEN HealthCheck("schema_registry_health", "SKIP", FALSE)
    ELSE IF response.raised
    THEN HealthCheck("schema_registry_health", "FAIL", FALSE)
    ELSE IF response.status_code = 200
    THEN HealthCheck("schema_registry_health", "PASS", FALSE)
    ELSE HealthCheck("schema_registry_health", "FAIL", FALSE)

CheckMonitoringIntegration(env, metadata, response) ==
    IF metadata.raised
    THEN HealthCheck("monitoring_integration", "FAIL", FALSE)
    ELSE LET monitoring_topics ==
                 {t \in metadata.topics :
                     HasWord(t, "monitoring") \/ HasWord(t, "metrics")
                         \/ HasWord(t, "logs")}
             sumo_healthy ==
                 /\ env.SUMO_LOGIC_ENDPOINT
                 /\ ~response.raised
                 /\ response.status_code = 200
         IN  HealthCheck("monitoring_integration",
                         IF /\ Cardinality(monitoring_topics) > 0
                            /\ (~env.SUMO_LOGIC_ENDPOINT \/ sumo_healthy)
                         THEN "PASS" ELSE "WARN",
                         FALSE)

CheckSecurityConfiguration(env, metadata) ==
    IF metadata.raised
    THEN HealthCheck("security_configuration", "FAIL", TRUE)
    ELSE LET tls_enabled == TRUE    \* 'security.protocol': 'SASL_SSL'
             auth_configured == env.CONFLUENT_CLOUD_API_KEY
         IN  HealthCheck("security_configuration",
                         IF tls_enabled /\ auth_configured THEN "PASS" ELSE "FAIL",
                         TRUE)

(* the measured latency of list_topics, in milliseconds *)
LatencySet == {100, 7000, 12000}

CheckPerformanceBaseline(environment, metadata, latency) ==
    IF metadata.raised
    THEN HealthCheck("performance_baseline", "FAIL", FALSE)
    ELSE LET max_latency_ms == IF environment = "prod" THEN 5000 ELSE 10000
         IN  HealthCheck("performance_baseline",
                         IF latency < max_latency_ms THEN "PASS" ELSE "WARN",
                         FALSE)

(* How the end-to-end test went: a step raised, or the consumer's polls    *)
(* ended with or without the test message.                                 *)
FlowSet == {"create_raised", "produce_raised", "received", "not_received"}

CheckEndToEndFlow(flow) ==
    HealthCheck("end_to_end_flow",
                IF flow = "received" THEN "PASS" ELSE "FAIL",
                TRUE)

(* Calculate overall status: CRITICAL counts the checks not passed as      *)
(* passed, which leaves only HEALTHY.                                      *)
OverallStatusOfPassed(checks) ==
    IF \E i \in DOMAIN checks : checks[i].status = "FAIL" /\ checks[i].critical
    THEN "CRITICAL"
    ELSE IF \E i \in DOMAIN checks : checks[i].status = "FAIL"
    THEN "WARNING"
    ELSE "HEALTHY"

OverallStatus(checks) ==
    LET failed_checks == SelectSeq(checks, LAMBDA c : c.status # "PASS")
        critical_failures == SelectSeq(failed_checks, LAMBDA c : c.critical)
    IN  IF critical_failures # <<>> THEN "CRITICAL"
        ELSE IF failed_checks # <<>> THEN "WARNING"
        ELSE "HEALTHY"

ExitCode(overall_status) ==
    IF overall_status = "CRITICAL" THEN 2
    ELSE IF overall_status = "WARNING" THEN 1
    ELSE 0

(* SpecHealth: one run of main().  health.pc is the statement of           *)
(* run_health_checks the run stands at.                                    *)
InitHealth ==
    /\ ParseIdle /\ StoreIdle /\ MainIdle /\ ReportIdle
    /\ now = ClockStart
    /\ rbac = NotStarted
    /\ \E environment \in {"prod", "dev"}, env \in HealthEnvSet,
          expected_topics \in 0..MaxExpected,
          expected_connectors \in 0..MaxExpected :
          health = [pc |-> "connectivity", environment |-> environment,
                    env |-> env, expected_topics |-> expected_topics,
                    expected_connectors |-> expected_connectors,
                    checks |-> <<>>, overall_status |-> "UNKNOWN",
                    raised |-> FALSE, report_written |-> FALSE,
                    exit_code |-> 0]

(* health_summary['checks'].append(result), and on to the next statement *)
Recorded(summary, result, next) ==
    [summary EXCEPT !.checks = Append(@, result), !.pc = next]

HealthConnectivity ==
    /\ health.pc = "connectivity"
    /\ \E metadata \in ListTopicsSet :
          health' = Recorded(health, CheckClusterConnectivity(metadata),
                              "topics")
    /\ UNCHANGED <<parseVars, now, storeVars, mainVars, reportVars, rbac>>

HealthTopics ==
    /\ health.pc = "topics"
    /\ \E metadata \in ListTopicsSet :
          health' = Recorded(health, CheckTopics(metadata, health.expected_topics),
                              "connectors")
    /\ UNCHANGED <<parseVars, now, storeVars, mainVars, reportVars, rbac>>

HealthConnectors ==
    /\ health.pc = "connectors"
    /\ \E api_response \in ApiResponseSet(health.env) :
          health' = Recorded(health, CheckConnectors(api_response, health.expected_connectors),
                              "schema_registry")
    /\ UNCHANGED <<parseVars, now, storeVars, mainVars, reportVars, rbac>>

HealthSchemaRegistry ==
    /\ health.pc = "schema_registry"
    /\ \E response \in HttpResponseSet :
          health' = Recorded(health, CheckSchemaRegistry(health.env, response),
                              "monitoring")
    /\ UNCHANGED <<parseVars, now, storeVars, mainVars, reportVars, rbac>>

HealthMonitoring ==
    /\ health.pc = "monitoring"
    /\ \E metadata \in ListTopicsSet, response \in HttpResponseSet :
          health' = Recorded(health, CheckMonitoringIntegration(health.env, metadata, response),
                              "security")
    /\ UNCHANGED <<parseVars, now, storeVars, mainVars, reportVars, rbac>>

HealthSecurity ==
    /\ health.pc = "security"
    /\ \E metadata \in ListTopicsSet :
          health' = Recorded(health, CheckSecurityConfiguration(health.env, metadata),
                              "performance")
    /\ UNCHANGED <<parseVars, now, storeVars, mainVars, reportVars, rbac>>

HealthPerformance ==
    /\ health.pc = "performance"
    /\ \E metadata \in ListTopicsSet, latency \in LatencySet :
          health' = Recorded(health, CheckPerformanceBaseline(health.environment, metadata, latency),
                              "end_to_end")
    /\ UNCHANGED <<parseVars, now, storeVars, mainVars, reportVars, rbac>>

HealthEndToEnd ==
    /\ health.pc = "end_to_end"
    /\ \E flow \in FlowSet :
          health' = Recorded(health, CheckEndToEndFlow(flow),
                              "overall_status")
    /\ UNCHANGED <<parseVars, now, storeVars, mainVars, reportVars, rbac>>

HealthOverallStatus ==
    /\ health.pc = "overall_status"
    /\ health' = [health EXCEPT !.overall_status = OverallStatus(health.checks),
                                !.pc = "returned"]
    /\ UNCHANGED <<parseVars, now, storeVars, mainVars, reportVars, rbac>>

(* except Exception as e: an exception that reaches the handler of         *)
(* run_health_checks.  Every check catches Exception in its own body, so   *)
(* it comes from the statements between them (a MemoryError, say).         *)
HealthExecutionFailed ==
    /\ health.pc \in {"connectivity", "topics", "connectors", "schema_registry",
                      "monitoring", "security", "performance", "end_to_end",
                      "overall_status"}
    /\ health' = [health EXCEPT
                      !.checks = Append(@, HealthCheck("health_check_execution",
                                                       "FAIL", TRUE)),
                      !.overall_status = "CRITICAL",
                      !.raised = TRUE,
                      !.pc = "returned"]
    /\ UNCHANGED <<parseVars, now, storeVars, mainVars, reportVars, rbac>>

(* main(): json.dump(results, f), the summary, sys.exit *)
HealthMain ==
    /\ health.pc = "returned"
    /\ health' = [health EXCEPT !.report_written = TRUE,
                                !.exit_code = ExitCode(health.overall_status),
                                !.pc = "exited"]
    /\ UNCHANGED <<parseVars, now, storeVars, mainVars, reportVars, rbac>>

NextHealth ==
    \/ HealthConnectivity \/ HealthTopics \/ HealthConnectors
    \/ HealthSchemaRegistry \/ HealthMonitoring \/ HealthSecurity
    \/ HealthPerformance \/ HealthEndToEnd \/ HealthOverallStatus
    \/ HealthExecutionFailed \/ HealthMain

(* Every call of the run has a timeout, so a run that has not exited takes *)
(* its next step.                                                          *)
SpecHealth == InitHealth /\ [][NextHealth]_vars /\ WF_vars(NextHealth)

---------------------------------------------------------------------------
(* test-rbac-permissions.py: RBACTester and main.  What an operation of    *)
(* the Kafka client does is its outcome: "True" or "False" when it         *)
(* returns, "raises" when it raises.                                       *)

(* the accounts a run is given: name, and whether _get_service_account_    *)
(* credentials finds both its key and its secret                           *)
AccountNames == <<"kafka_admin", "connector_operator", "data_consumer">>

RECURSIVE AccountLists(_)
AccountLists(n) ==
    IF n = 0 THEN {<<>>}
    ELSE LET shorter == AccountLists(n - 1)
             name == AccountNames[Len(AccountNames) - n + 1]
         IN  { <<[name |-> name, credentials |-> c]>> \o rest :
                   c \in BOOLEAN, rest \in shorter }
             \cup shorter

ServiceAccountsSet == AccountLists(Len(AccountNames))

Returns == {"True", "raises"}

(* _test_operation(sa_name, operation, operation_func, expected_success) *)
TestOperation(sa_name, operation, outcome, expected_success) ==
    LET actual_success == outcome # "raises" /\ outcome # "False"
    IN  [service_account |-> sa_name,
         operation |-> operation,
         expected_success |-> expected_success,
         actual_success |-> actual_success,
         test_passed |-> (actual_success = expected_success)]

(* bool(d.get(key)) for a dictionary whose values are booleans *)
GetTruthy(d, key) == key \in DOMAIN d /\ d[key]

(* _test_admin_permissions: the checks recorded, and whether the test      *)
(* topic is left on the cluster                                            *)
TestAdminPermissions(sa_name, list, create, delete, describe) ==
    LET created == TestOperation(sa_name, "create_topic", create, TRUE)
        followed == GetTruthy(created, "success")
    IN  [results |->
             <<TestOperation(sa_name, "list_topics", list, TRUE), created>>
             \o (IF followed
                 THEN <<TestOperation(sa_name, "delete_topic", delete, TRUE)>>
                 ELSE <<>>)
             \o <<TestOperation(sa_name, "describe_cluster", describe, TRUE)>>,
         left |-> IF create = "True" /\ ~(followed /\ delete = "True")
                  THEN {"rbac-test"} ELSE {},
         raised |-> ""]

(* _test_operator_permissions; the cleanup at its end is not a check, so   *)
(* that a _delete_topic that raises there leaves the function              *)
TestOperatorPermissions(sa_name, list, create, create_other, describe, delete) ==
    LET results ==
            <<TestOperation(sa_name, "list_topics", list, TRUE),
              TestOperation(sa_name, "create_connector_topic", create, TRUE),
              TestOperation(sa_name, "create_non_connector_topic", create_other,
                            FALSE),
              TestOperation(sa_name, "describe_cluster", describe, FALSE)>>
        cleaned == GetTruthy(results[2], "success")
    IN  [results |-> IF cleaned /\ delete = "raises" THEN <<>> ELSE results,
         left |-> (IF create = "True" /\ ~(cleaned /\ delete = "True")
                   THEN {"connector-rbac-test"} ELSE {})
                  \cup (IF create_other = "True" THEN {"other-topic"} ELSE {}),
         raised |-> IF cleaned /\ delete = "raises" THEN "KafkaException" ELSE ""]

(* _test_consumer_permissions *)
TestConsumerPermissions(sa_name, allowed, restricted, produce) ==
    [results |->
         <<TestOperation(sa_name, "subscribe_allowed_topic", allowed, TRUE),
           TestOperation(sa_name, "subscribe_restricted_topic", restricted, FALSE),
           TestOperation(sa_name, "produce_message", produce, FALSE)>>,
     left |-> {},
     raised |-> ""]

(* the three escalation tests of one account in test_privilege_escalation *)
EscalationTests(sa_name, create, describe, list) ==
    [results |->
         <<TestOperation(sa_name, "escalation_create_admin_topic", create, FALSE),
           TestOperation(sa_name, "escalation_alter_cluster_config", describe,
                         FALSE),
           TestOperation(sa_name, "escalation_delete_system_topics", list, FALSE)>>,
     left |-> IF create = "True" THEN {"admin-escalation-test"} ELSE {},
     raised |-> ""]

PassedTests(results) == Len(SelectSeq(results, LAMBDA r : r.test_passed))

(* generate_rbac_report: the summary of the report *)
RbacSummary(results) ==
    LET total_tests == Len(results)
        passed_tests == PassedTests(results)
    IN  [total_tests |-> total_tests,
         passed_tests |-> passed_tests,
         failed_tests |-> total_tests - passed_tests,
         success_rate |-> IF total_tests > 0
                          THEN FracMul(Frac(passed_tests, total_tests), Frac(100, 1))
                          ELSE Zero]

(* main(): the success rate of the printed summary *)
PrintedSuccessRate(results) ==
    FracMul(FracDiv(Frac(PassedTests(results), 1), Frac(Len(results), 1)),
            Frac(100, 1))

(* SpecRbac: one run of main().  rbac.idx is the account the loop of       *)
(* rbac.pc stands at; rbac.topics are the test topics the run created and  *)
(* did not delete.                                                         *)
InitRbac ==
    /\ ParseIdle /\ StoreIdle /\ MainIdle /\ ReportIdle
    /\ now = ClockStart
    /\ health = NotStarted
    /\ \E service_accounts \in ServiceAccountsSet :
          rbac = [pc |-> "permissions", service_accounts |-> service_accounts,
                  idx |-> 1, results |-> <<>>, topics |-> {},
                  report |-> RbacSummary(<<>>), report_written |-> FALSE,
                  summary_printed |-> FALSE, raised |-> "", exit_code |-> 0]

(* The loop at rbac.pc goes on with the outcome of the tests of one        *)
(* account, or the run ends with the exception that left them.             *)
AfterAccount(run, outcome) ==
    IF outcome.raised # ""
    THEN [run EXCEPT !.raised = outcome.raised, !.exit_code = 1, !.pc = "exited"]
    ELSE [run EXCEPT !.results = @ \o outcome.results,
                     !.topics = @ \cup outcome.left,
                     !.idx = @ + 1]

CurrentAccount == rbac.service_accounts[rbac.idx]

InLoop(at) == rbac.pc = at /\ rbac.idx <= Len(rbac.service_accounts)

(* if not api_key or not api_secret: continue; and an account whose name   *)
(* has no branch                                                           *)
RbacNoCredentials ==
    /\ InLoop("permissions")
    /\ ~CurrentAccount.credentials
    /\ rbac' = [rbac EXCEPT !.idx = @ + 1]
    /\ UNCHANGED <<parseVars, now, storeVars, mainVars, reportVars, health>>

RbacAdminPermissions ==
    /\ InLoop("permissions")
    /\ CurrentAccount.credentials /\ CurrentAccount.name = "kafka_admin"
    /\ \E list \in Returns, create \in Returns, delete \in Returns,
          describe \in Returns \cup {"False"} :
          rbac' = AfterAccount(rbac,
                      TestAdminPermissions(CurrentAccount.name, list, create,
                                           delete, describe))
    /\ UNCHANGED <<parseVars, now, storeVars, mainVars, reportVars, health>>

RbacOperatorPermissions ==
    /\ InLoop("permissions")
    /\ CurrentAccount.credentials /\ CurrentAccount.name = "connector_operator"
    /\ \E list \in Returns, create \in Returns, create_other \in Returns,
          describe \in Returns, delete \in Returns :
          rbac' = AfterAccount(rbac,
                      TestOperatorPermissions(CurrentAccount.name, list, create,
                                              create_other, describe, delete))
    /\ UNCHANGED <<parseVars, now, storeVars, mainVars, reportVars, health>>

RbacConsumerPermissions ==
    /\ InLoop("permissions")
    /\ CurrentAccount.credentials /\ CurrentAccount.name = "data_consumer"
    /\ \E allowed \in Returns, restricted \in Returns, produce \in Returns :
          rbac' = AfterAccount(rbac,
                      TestConsumerPermissions(CurrentAccount.name, allowed,
                                              restricted, produce))
    /\ UNCHANGED <<parseVars, now, storeVars, mainVars, reportVars, health>>

(* return results; escalation_results = tester.test_privilege_escalation *)
RbacPermissionsDone ==
    /\ rbac.pc = "permissions" /\ rbac.idx > Len(rbac.service_accounts)
    /\ rbac' = [rbac EXCEPT !.pc = "escalation", !.idx = 1]
    /\ UNCHANGED <<parseVars, now, storeVars, mainVars, reportVars, health>>

(* the admin account, and an account without credentials: continue *)
RbacEscalationSkipped ==
    /\ InLoop("escalation")
    /\ CurrentAccount.name = "kafka_admin" \/ ~CurrentAccount.credentials
    /\ rbac' = [rbac EXCEPT !.idx = @ + 1]
    /\ UNCHANGED <<parseVars, now, storeVars, mainVars, reportVars, health>>

(* the escalation topic has one name in every run and for every account:   *)
(* it can be created only while it does not exist                          *)
RbacEscalation ==
    /\ InLoop("escalation")
    /\ CurrentAccount.name # "kafka_admin" /\ CurrentAccount.credentials
    /\ \E create \in Returns, describe \in Returns, list \in Returns :
          /\ create = "True" => "admin-escalation-test" \notin rbac.topics
          /\ rbac' = AfterAccount(rbac,
                         EscalationTests(CurrentAccount.name, create, describe,
                                         list))
    /\ UNCHANGED <<parseVars, now, storeVars, mainVars, reportVars, health>>

(* report = tester.generate_rbac_report(results); f.write(report) *)
RbacWriteReport ==
    /\ rbac.pc = "escalation" /\ rbac.idx > Len(rbac.service_accounts)
    /\ rbac' = [rbac EXCEPT !.report = RbacSummary(rbac.results),
                            !.report_written = TRUE,
                            !.pc = "summary"]
    /\ UNCHANGED <<parseVars, now, storeVars, mainVars, reportVars, health>>

(* the printed summary and the exit: an uncaught exception ends the        *)
(* process with code 1                                                     *)
RbacPrintSummary ==
    /\ rbac.pc = "summary"
    /\ rbac' = IF PrintedSuccessRate(rbac.results) = ZeroDivisionError
               THEN [rbac EXCEPT !.raised = "ZeroDivisionError",
                                 !.exit_code = 1, !.pc = "exited"]
               ELSE [rbac EXCEPT
                         !.summary_printed = TRUE,
                         !.exit_code = IF PassedTests(rbac.results)
                                            # Len(rbac.results)
                                       THEN 1 ELSE 0,
                         !.pc = "exited"]
    /\ UNCHANGED <<parseVars, now, storeVars, mainVars, reportVars, health>>

NextRbac ==
    \/ RbacNoCredentials \/ RbacAdminPermissions \/ RbacOperatorPermissions
    \/ RbacConsumerPermissions \/ RbacPermissionsDone
    \/ RbacEscalationSkipped \/ RbacEscalation
    \/ RbacWriteReport \/ RbacPrintSummary

SpecRbac == InitRbac /\ [][NextRbac]_vars

---------------------------------------------------------------------------
(* Properties of the store, over the calls of SpecStore. *)

(* The number of positions of a sequence holding x. *)
Count(seq, x) == Cardinality({i \in DOMAIN seq : seq[i] = x})

(* Two sequences hold the same elements the same number of times. *)
SameRecords(s, t) ==
    /\ Len(s) = Len(t)
    /\ \A i \in DOMAIN s : Count(s, s[i]) = Count(t, s[i])

(* Newest first: no record is followed by one of a later instant. *)
NewestFirst(results) ==
    \A i, j \in DOMAIN results :
        i < j => Instant(results[i].timestamp) >= Instant(results[j].timestamp)

(* C1: round trip: after N records were appended to an empty store, a     *)
(* query whose cutoff lies before every one of their timestamps returns    *)
(* exactly those N records, every field as appended, newest first.         *)
C1_RoundTrip ==
    (/\ ret.op = "query"
     /\ \A i \in DOMAIN appended :
           Instant(ret.cutoff) < Instant(appended[i].timestamp))
        => /\ SameRecords(ret.results, appended)
           /\ NewestFirst(ret.results)

(* C2: a query returns no record whose timestamp is before the cutoff,     *)
(* every stored record whose timestamp is after it, in descending order of *)
(* time, whatever UTC offsets the stored timestamps carry.                 *)
C2_QuerySinceCutoff ==
    ret.op = "query" =>
        /\ \A i \in DOMAIN ret.results :
              Instant(ret.results[i].timestamp) >= Instant(ret.cutoff)
        /\ \A i \in DOMAIN appended :
              Instant(appended[i].timestamp) > Instant(ret.cutoff)
                 => Count(ret.results, appended[i]) = Count(appended, appended[i])
        /\ NewestFirst(ret.results)

---------------------------------------------------------------------------
(* Properties of the run of main(), over Spec. *)

(* C3: the store is an append-only log: every step keeps every row, with   *)
(* its fields and its place, and the reports, with their queries and       *)
(* analyses, leave the store as it is.                                     *)
C3_AppendOnly ==
    [][/\ Len(db) <= Len(db')
       /\ \A i \in DOMAIN db : db'[i] = db[i]
       /\ pc \in {"html", "json"} => db' = db]_vars

(* C3 witness: two records were appended and a report was generated over   *)
(* them.                                                                   *)
C3_Witness == Len(db) >= 2 /\ reports # <<>>

(* The file cannot be parsed: parse_junit_file raises on it. *)
FailsToParse(file) == ParseJUnitFile(file, now).raised

(* The records the files ingested so far have stored, in order. *)
StoredByFiles ==
    LET F[i \in 0..Len(fileLog)] ==
            IF i = 0 THEN <<>> ELSE F[i-1] \o fileLog[i].rows
    IN  F[Len(fileLog)]

C10_PersistenceErrorFatal ==
    \A i \in DOMAIN fileLog :
        fileLog[i].end = "store_failed" =>
            /\ pc = "raised"
            /\ i = Len(fileLog)
            /\ reports = <<>>
            /\ [k \in DOMAIN db |-> ResultOf(db[k])] = StoredByFiles

---------------------------------------------------------------------------
(* Properties of the analytics and of the reports, over the calls of       *)
(* SpecAnalytics.                                                          *)

(* The positions of the window holding a record of a test, of a status. *)
RunsOf(name) == {i \in DOMAIN window : window[i].test_name = name}
RunsWith(name, status) == {i \in RunsOf(name) : window[i].status = status}
WindowNames == {window[i].test_name : i \in DOMAIN window}
FirstRun(name) == CHOOSE i \in RunsOf(name) : \A j \in RunsOf(name) : i <= j

(* C11: on a window of zero records the trend analysis returns the 'no     *)
(* data' marker, which it returns for no other window, the flaky analysis  *)
(* returns an empty list, and the failure analysis returns 0 failures and  *)
(* empty kind, component and top-failing-tests collections.                *)
C11_EmptyWindowValid ==
    /\ analysis.op = "trend" =>
          (("error" \in DOMAIN analysis.result) <=> window = <<>>)
    /\ (analysis.op = "flaky" /\ window = <<>>) => analysis.result = <<>>
    /\ (analysis.op = "failures" /\ window = <<>>) =>
          /\ analysis.result.total_failures = 0
          /\ DOMAIN analysis.result.error_type_distribution = {}
          /\ DOMAIN analysis.result.component_failure_distribution = {}
          /\ analysis.result.top_failing_tests = <<>>

C11_Witness ==
    /\ window = <<>>
    /\ analysis.op = "trend"
    /\ analysis.result = NoData

(* C12: a test is in the list of identify_flaky_tests exactly when it has  *)
(* at least min_executions records in the window, of whatever status, one  *)
(* of them PASSED and one FAILED; it is there once, with its counts.       *)
C12_FlakyQualification ==
    analysis.op = "flaky" =>
        LET res == analysis.result
            entriesOf(n) == {i \in DOMAIN res : res[i].test_name = n}
            qualifies(n) ==
                /\ Cardinality(RunsOf(n)) >= analysis.min_executions
                /\ RunsWith(n, "PASSED") # {}
                /\ RunsWith(n, "FAILED") # {}
        IN  /\ \A i \in DOMAIN res : res[i].test_name \in WindowNames
            /\ \A n \in WindowNames :
                  /\ Cardinality(entriesOf(n)) = IF qualifies(n) THEN 1 ELSE 0
                  /\ \A i \in entriesOf(n) :
                        /\ res[i].total_executions = Cardinality(RunsOf(n))
                        /\ res[i].passed_count = Cardinality(RunsWith(n, "PASSED"))
                        /\ res[i].failed_count = Cardinality(RunsWith(n, "FAILED"))

(* A test that needs its SKIPPED record to reach min_executions is listed, *)
(* next to a test with as many records that never failed.                  *)
C12_Witness ==
    /\ analysis.op = "flaky"
    /\ \E i \in DOMAIN analysis.result :
          /\ analysis.result[i].total_executions = analysis.min_executions
          /\ analysis.result[i].passed_count + analysis.result[i].failed_count
                < analysis.min_executions
    /\ \E n \in WindowNames :
          /\ Cardinality(RunsOf(n)) >= analysis.min_executions
          /\ \A i \in DOMAIN analysis.result : analysis.result[i].test_name # n

(* C13: every entry's flaky_score is min(passed, failed) / total * 100,    *)
(* above 0 and at most 50, and 50 only when passed = failed and no record  *)
(* of the test has another status.                                         *)
C13_FlakyScoreBound ==
    analysis.op = "flaky" =>
        \A i \in DOMAIN analysis.result :
            LET e == analysis.result[i]
                least == IF e.passed_count < e.failed_count
                         THEN e.passed_count ELSE e.failed_count
                s == e.flaky_score
            IN  /\ s.den > 0
                /\ s.num * e.total_executions = least * 100 * s.den
                /\ s.num > 0
                /\ s.num <= 50 * s.den
                /\ s.num = 50 * s.den =>
                      /\ e.passed_count = e.failed_count
                      /\ e.passed_count + e.failed_count = e.total_executions

(* An even split scoring 50 and a test scoring less in one list. *)
C13_Witness ==
    /\ analysis.op = "flaky"
    /\ \E i, j \in DOMAIN analysis.result :
          /\ analysis.result[i].flaky_score = Frac(50, 1)
          /\ FracLess(analysis.result[j].flaky_score, Frac(50, 1))
          /\ analysis.result[j].passed_count # analysis.result[j].failed_count

(* C14: the list of identify_flaky_tests is in non-increasing flaky_score  *)
(* order, and entries of equal score are in the order in which their tests *)
(* first occur in the queried records.                                     *)
C14_FlakyOrder ==
    analysis.op = "flaky" =>
        \A i, j \in DOMAIN analysis.result :
            i < j =>
                LET a == analysis.result[i]
                    b == analysis.result[j]
                IN  /\ ~FracLess(a.flaky_score, b.flaky_score)
                    /\ a.flaky_score = b.flaky_score
                          => FirstRun(a.test_name) < FirstRun(b.test_name)

(* Two tests of equal score listed, the one met first in the window first. *)
C14_Witness ==
    /\ analysis.op = "flaky"
    /\ Len(analysis.result) = 2
    /\ analysis.result[1].flaky_score = analysis.result[2].flaky_score
    /\ analysis.result[1].test_name = NameOf(2)

(* The dates of the window, and the records on a date. *)
WindowDates == {DateOf(window[i].timestamp) : i \in DOMAIN window}
RecordsOn(d) == {i \in DOMAIN window : DateOf(window[i].timestamp) = d}
NextDate(d, e) == d < e /\ \A x \in WindowDates : ~(d < x /\ x < e)

(* The success rate and the average duration of a date of the window. *)
DayRate(d) ==
    Frac(100 * Cardinality({i \in RecordsOn(d) : window[i].status = "PASSED"}),
         Cardinality(RecordsOn(d)))
DayDuration(d) ==
    Frac(FracSum([i \in DOMAIN window |->
                    Frac(IF i \in RecordsOn(d) THEN window[i].duration ELSE 0, 1)]).num,
         Cardinality(RecordsOn(d)))

(* The per-day values, in ascending date order, rise by k from each date   *)
(* to the next.                                                            *)
RisesBy(values, k) ==
    \A d, e \in WindowDates : NextDate(d, e) => FracSub(values[e], values[d]) = k
DayRates == [d \in WindowDates |-> DayRate(d)]
DayDurations == [d \in WindowDates |-> DayDuration(d)]

(* C15: when the records fall on two or more dates and the per-day success *)
(* rates, in ascending date order, rise by a constant k, success_rate_trend *)
(* is k; likewise duration_trend for the per-day average durations.        *)
C15_TrendSlopeExact ==
    (analysis.op = "trend" /\ Cardinality(WindowDates) >= 2) =>
        \A d, e \in WindowDates :
            NextDate(d, e) =>
                /\ RisesBy(DayRates, FracSub(DayRate(e), DayRate(d)))
                      => analysis.result.success_rate_trend
                            = FracSub(DayRate(e), DayRate(d))
                /\ RisesBy(DayDurations, FracSub(DayDuration(e), DayDuration(d)))
                      => analysis.result.duration_trend
                            = FracSub(DayDuration(e), DayDuration(d))

(* Three dates with success rates 0, 50, 100 and average durations rising  *)
(* by one second a day.                                                    *)
C15_Witness ==
    /\ analysis.op = "trend"
    /\ Cardinality(WindowDates) >= 3
    /\ RisesBy(DayRates, Frac(50, 1))
    /\ RisesBy(DayDurations, Frac(10, 1))
    /\ analysis.result.success_rate_trend = Frac(50, 1)
    /\ analysis.result.duration_trend = Frac(10, 1)

(* The FAILED records of a test, and the newest of them. *)
NewestFailures(name) ==
    {i \in RunsWith(name, "FAILED") :
        \A j \in RunsWith(name, "FAILED") :
            Instant(window[i].timestamp) >= Instant(window[j].timestamp)}

(* C16: latest_error of an entry of the top-failing-tests list is the      *)
(* error message of the test's FAILED record with the newest timestamp,    *)
(* the empty string when that record has none.                             *)
C16_LatestErrorIsNewest ==
    analysis.op = "failures" =>
        \A i \in DOMAIN analysis.result.top_failing_tests :
            LET e == analysis.result.top_failing_tests[i]
            IN  \E k \in NewestFailures(e.test_name) :
                    e.latest_error = PyOr(window[k].error_message, "")

(* The number of FAILED records of a test in the window. *)
FailureCount(name) == Cardinality(RunsWith(name, "FAILED"))
FailingNames == {n \in WindowNames : FailureCount(n) > 0}

(* C17: the top-failing-tests list has at most 10 entries, one per test,   *)
(* each with the number of FAILED records of its test, in non-increasing   *)
(* order of that number; no test left out has more failures than a test    *)
(* of the list.                                                            *)
C17_TopFailingTests ==
    analysis.op = "failures" =>
        LET top == analysis.result.top_failing_tests
            listed == {top[i].test_name : i \in DOMAIN top}
        IN  /\ Len(top) <= 10
            /\ listed \subseteq FailingNames
            /\ \A i, j \in DOMAIN top :
                  /\ i # j => top[i].test_name # top[j].test_name
                  /\ i < j => top[i].failure_count >= top[j].failure_count
            /\ \A i \in DOMAIN top :
                  top[i].failure_count = FailureCount(top[i].test_name)
            /\ \A n \in FailingNames \ listed :
                  \A i \in DOMAIN top : FailureCount(n) <= top[i].failure_count

(* More than 10 failing tests, the one with most failures met last and     *)
(* listed first.                                                           *)
C17_Witness ==
    /\ analysis.op = "failures"
    /\ Cardinality(FailingNames) > 10
    /\ Len(analysis.result.top_failing_tests) = 10
    /\ analysis.result.top_failing_tests[1].failure_count > 1
    /\ \A n \in FailingNames :
          FirstRun(n) <= FirstRun(analysis.result.top_failing_tests[1].test_name)

(* The sum of the counts of a distribution. *)
RECURSIVE SumOfCounts(_, _)
SumOfCounts(dist, keys) ==
    IF keys = {} THEN 0
    ELSE LET k == CHOOSE x \in keys : TRUE
         IN  dist[k] + SumOfCounts(dist, keys \ {k})

(* C18: total_failures is the number of FAILED records of the window; the  *)
(* two distributions count the FAILED records per error kind and per       *)
(* component, 'Unknown' standing for an absent one, and each sums to        *)
(* total_failures.                                                         *)
C18_FailedRecordsOnly ==
    analysis.op = "failures" =>
        LET failed == {i \in DOMAIN window : window[i].status = "FAILED"}
            kind(i) == IF window[i].error_type \in {None, ""} THEN "Unknown"
                       ELSE window[i].error_type
            comp(i) == IF window[i].component \in {None, ""} THEN "Unknown"
                       ELSE window[i].component
            kinds == analysis.result.error_type_distribution
            comps == analysis.result.component_failure_distribution
        IN  /\ analysis.result.total_failures = Cardinality(failed)
            /\ DOMAIN kinds = {kind(i) : i \in failed}
            /\ \A k \in DOMAIN kinds :
                  kinds[k] = Cardinality({i \in failed : kind(i) = k})
            /\ DOMAIN comps = {comp(i) : i \in failed}
            /\ \A k \in DOMAIN comps :
                  comps[k] = Cardinality({i \in failed : comp(i) = k})
            /\ SumOfCounts(kinds, DOMAIN kinds) = Cardinality(failed)
            /\ SumOfCounts(comps, DOMAIN comps) = Cardinality(failed)

(* A SKIPPED record with its kind 'Skipped' next to two FAILED ones, one   *)
(* of them without kind and component.                                     *)
C18_Witness ==
    /\ analysis.op = "failures"
    /\ \E i \in DOMAIN window : window[i].status = "SKIPPED"
    /\ analysis.result.total_failures = 2
    /\ DOMAIN analysis.result.error_type_distribution = {"Unknown", "AssertionError"}
    /\ DOMAIN analysis.result.component_failure_distribution = {"Unknown", "kafka"}

(* C19: the JSON report is written, its raw-record section holds           *)
(* min(N, 100) of the N records of the window, and no record left out is    *)
(* newer than a record it holds.                                           *)
C19_RawRecordsNewestTail ==
    analysis.op = "json" =>
        LET raw == analysis.result.report_data.test_results
            values == {window[i] : i \in DOMAIN window}
            leftOut(r) == Count(window, r) - Count(raw, r)
        IN  /\ analysis.result.raised = ""
            /\ Len(raw) = IF Len(window) < 100 THEN Len(window) ELSE 100
            /\ \A r \in values : leftOut(r) >= 0
            /\ \A r, q \in values :
                  (leftOut(r) > 0 /\ Count(raw, q) > 0)
                      => Instant(r.timestamp) <= Instant(q.timestamp)

(* C20: a rendered HTML report narrates each of the two trends once: the   *)
(* success rate as improving, declining or stable as success_rate_trend is *)
(* above, below or equal to 0, the duration as faster, slower or stable as *)
(* duration_trend is below, above or equal to 0.                           *)
C20_TrendNarration ==
    (analysis.op = "html" /\ analysis.result.raised = "") =>
        LET trend == CalculateTrendAnalysis(window)
            s == trend.success_rate_trend
            d == trend.duration_trend
        IN  /\ analysis.result.success_narrations =
                  <<IF s.num > 0 THEN "Improving"
                    ELSE IF s.num < 0 THEN "Declining" ELSE "Stable">>
            /\ analysis.result.duration_narrations =
                  <<IF d.num < 0 THEN "Faster"
                    ELSE IF d.num > 0 THEN "Slower" ELSE "Stable">>

(* A report over a window whose success rate falls and whose tests get     *)
(* faster from day to day.                                                 *)
C20_Witness ==
    /\ analysis.op = "html"
    /\ analysis.result.raised = ""
    /\ analysis.result.success_narrations = <<"Declining">>
    /\ analysis.result.duration_narrations = <<"Faster">>

---------------------------------------------------------------------------
(* Further properties of the store, the parser, the trend analysis and     *)
(* the HTML report.                                                        *)

(* C23: when a call of store_test_result or get_recent_results has         *)
(* exited, by returning or by raising, the connection it opened is closed: *)
(* no connection is left open after any sequence of store calls.           *)
C23_ConnectionsClosed ==
    ret.op \in {"store", "query"} => leak = "none"

(* The suite containers of a document, the root included, in document      *)
(* order, and the <testcase> elements they own with their owner.           *)
SuiteContainers(root) ==
    (IF root.tag = "testsuite" THEN <<root>> ELSE <<>>) \o FindAll(root, "testsuite")
OwnedCases(root) ==
    LET suites == SuiteContainers(root)
        F[i \in 0..Len(suites)] ==
            IF i = 0 THEN <<>>
            ELSE F[i-1] \o [j \in DOMAIN FindChildren(suites[i], "testcase") |->
                               [case |-> FindChildren(suites[i], "testcase")[j],
                                owner |-> suites[i]]]
    IN  F[Len(suites)]

(* C24: a parse that returns yields one record per <testcase> element      *)
(* inside a suite container, nested suites and the root suite included,    *)
(* each with the name and the timestamp of the suite that owns it.         *)
C24_OneRecordPerCase ==
    \A k \in DOMAIN out :
        ~out[k].raised =>
            LET owned == OwnedCases(doc.root)
                results == out[k].results
            IN  /\ Len(results) = Len(owned)
                /\ \A i \in DOMAIN results :
                      /\ results[i].test_name = Get(owned[i].case, "name", None)
                      /\ results[i].test_suite
                            = Get(owned[i].owner, "name", "Unknown Suite")
                      /\ results[i].timestamp = SuiteTimestamp(owned[i].owner, now)

(* The per-day values of the window in ascending date order. *)
InDateOrder(values) ==
    LET dates == SortedDates(WindowDates)
    IN  [i \in DOMAIN dates |-> values[dates[i]]]

(* C25: for a window that is not empty daily_stats has one entry per date  *)
(* of the records, holding the number of records of the date, the numbers  *)
(* of its PASSED and FAILED records and their summed duration; the two     *)
(* averages are the means of the per-day success rates and per-day average *)
(* durations; with all records on one date both slopes are 0.              *)
C25_DailyStats ==
    (analysis.op = "trend" /\ window # <<>>) =>
        LET t == analysis.result
            m == Frac(Cardinality(WindowDates), 1)
        IN  /\ DOMAIN t.daily_stats = WindowDates
            /\ \A d \in WindowDates :
                  LET e == t.daily_stats[d]
                      with(status) == {i \in RecordsOn(d) : window[i].status = status}
                  IN  /\ e.total = Cardinality(RecordsOn(d))
                      /\ e.passed = Cardinality(with("PASSED"))
                      /\ e.failed = Cardinality(with("FAILED"))
                      /\ e.passed + e.failed <= e.total
                      /\ Frac(e.duration, e.total) = DayDuration(d)
            /\ FracMul(t.average_success_rate, m) = FracSum(InDateOrder(DayRates))
            /\ FracMul(t.average_duration, m) = FracSum(InDateOrder(DayDurations))
            /\ Cardinality(WindowDates) = 1 =>
                  /\ t.success_rate_trend = Zero
                  /\ t.duration_trend = Zero

(* Two dates, one of them with a SKIPPED record only. *)
C25_Witness ==
    /\ analysis.op = "trend"
    /\ Cardinality(WindowDates) = 2
    /\ \E d \in WindowDates :
          /\ analysis.result.daily_stats[d].total = 1
          /\ analysis.result.daily_stats[d].passed = 0
          /\ analysis.result.daily_stats[d].failed = 0

(* C26: the HTML report over a window of zero records is rendered without  *)
(* raising, shows 0 total tests and narrates both trends as stable.        *)
C26_EmptyWindowHtml ==
    (analysis.op = "html" /\ window = <<>>) =>
        /\ analysis.result.raised = ""
        /\ analysis.result.total_tests = 0
        /\ analysis.result.success_narrations = <<"Stable">>
        /\ analysis.result.duration_narrations = <<"Stable">>

(* C22: no ratio the parser, the analyses or the report generators compute *)
(* divides by zero: the suite success rate, the trend slopes and averages  *)
(* (and with them the per-day rates and durations they are computed from), *)
(* the flaky scores and the summary ratios of both reports are each the    *)
(* quotient of a division by a non-zero number, or the 0 put in its place. *)
C22_NoDivisionByZero ==
    LET defined(x) == x.den # 0
        trendOk(t) ==
            "error" \notin DOMAIN t =>
                /\ defined(t.success_rate_trend) /\ defined(t.duration_trend)
                /\ defined(t.average_success_rate) /\ defined(t.average_duration)
        flakyOk(f) == \A i \in DOMAIN f : defined(f[i].flaky_score)
        r == analysis.result
    IN  /\ analysis.op = "parse" =>
              \A i \in DOMAIN r.suite_results : defined(r.suite_results[i].success_rate)
        /\ analysis.op = "trend" => trendOk(r)
        /\ analysis.op = "flaky" => flakyOk(r)
        /\ (analysis.op = "html" /\ r.raised = "") =>
              defined(r.success_rate) /\ defined(r.avg_duration)
        /\ analysis.op = "json" =>
              /\ defined(r.report_data.summary.success_rate)
              /\ defined(r.report_data.summary.average_duration)
              /\ defined(r.report_data.summary.total_duration)
              /\ trendOk(r.report_data.trends)
              /\ flakyOk(r.report_data.flaky_tests)

(* The JSON report of the empty window, its summary ratios put to 0. *)
C22_Witness ==
    /\ analysis.op = "json"
    /\ window = <<>>
    /\ analysis.result.report_data.summary.success_rate = Zero
    /\ analysis.result.report_data.summary.average_duration = Zero

---------------------------------------------------------------------------
(* Properties of the runs of generate_json_report, over SpecReport. *)

(* C21: a run of generate_json_report that ends on the store contents and  *)
(* with the window parameter of the run before it, the store untouched     *)
(* during both, ends as that run did: it raises when that run raised, and  *)
(* otherwise writes the report data (all of the artifact but generated_at) *)
(* that run wrote.                                                         *)
C21_JsonDeterminism ==
    [][ (/\ analysis.op = "json" /\ analysis.stage = "write"
         /\ analysis'.op = "none"
         /\ reports # <<>> /\ reports' # <<>>
         /\ reports[1].quiet /\ reports'[1].quiet
         /\ reports[1].db = reports'[1].db
         /\ reports[1].days = reports'[1].days)
        => (/\ reports'[1].raised = reports[1].raised
            /\ reports[1].raised = ""
                  => reports'[1].report_data = reports[1].report_data) ]_vars

(* C27: in every JSON report written, total_tests is the sum of the        *)
(* passed, failed and skipped counts, failed_tests is the total_failures   *)
(* of the failure patterns, and the per-day totals of the trends sum to    *)
(* total_tests.                                                            *)
C27_SectionsAgree ==
    \A k \in DOMAIN reports :
        (reports[k].format = "json" /\ "report_data" \in DOMAIN reports[k]
         /\ reports[k].raised = "") =>
            LET data == reports[k].report_data
                daily == IF "daily_stats" \in DOMAIN data.trends
                         THEN data.trends.daily_stats ELSE <<>>
                totals == [d \in DOMAIN daily |-> daily[d].total]
            IN  /\ data.summary.total_tests
                      = data.summary.passed_tests + data.summary.failed_tests
                        + data.summary.skipped_tests
                /\ data.summary.failed_tests = data.failure_patterns.total_failures
                /\ SumOfCounts(totals, DOMAIN totals) = data.summary.total_tests

---------------------------------------------------------------------------
(* Properties of the deployment health check, over SpecHealth. *)

CheckOrder ==
    <<"cluster_connectivity", "topics_validation", "connectors_validation",
      "schema_registry_health", "monitoring_integration",
      "security_configuration", "performance_baseline", "end_to_end_flow">>

HealthVerdict ==
    health.pc \in {"returned", "exited"} =>
        LET checks == health.checks
            all_pass == \A i \in DOMAIN checks : checks[i].status = "PASS"
            critical == \E i \in DOMAIN checks :
                            checks[i].critical /\ checks[i].status # "PASS"
        IN  /\ health.overall_status \in {"HEALTHY", "WARNING", "CRITICAL"}
            /\ health.overall_status = "HEALTHY" <=> all_pass
            /\ health.overall_status = "CRITICAL" <=> (critical \/ health.raised)
            /\ health.overall_status = "WARNING"
                   <=> (~all_pass /\ ~critical /\ ~health.raised)
            /\ ~health.raised => [i \in DOMAIN checks |-> checks[i].name] = CheckOrder
            /\ health.pc = "exited" =>
                   health.exit_code
                       = CASE health.overall_status = "HEALTHY" -> 0
                           [] health.overall_status = "WARNING" -> 1
                           [] health.overall_status = "CRITICAL" -> 2

---------------------------------------------------------------------------
(* Properties of the RBAC checks, over SpecRbac. *)

(* C29: a test topic whose creation succeeded is followed up: after the    *)
(* admin's create_topic check succeeded its delete_topic check is          *)
(* recorded, and the operator's connector test topic does not outlive the  *)
(* operator's checks.                                                      *)
C29_TestTopicFollowedUp ==
    /\ \A i \in DOMAIN rbac.results :
           (rbac.results[i].operation = "create_topic"
            /\ rbac.results[i].actual_success) =>
               \E j \in DOMAIN rbac.results :
                   /\ j > i
                   /\ rbac.results[j].operation = "delete_topic"
                   /\ rbac.results[j].service_account
                          = rbac.results[i].service_account
    /\ "connector-rbac-test" \notin rbac.topics
    /\ "rbac-test" \notin rbac.topics

(* C30: a run that ended has written its report and printed its summary    *)
(* without raising, and its exit code is not 0 exactly when a check that   *)
(* was executed did not pass.                                              *)
C30_RbacVerdict ==
    rbac.pc = "exited" =>
        /\ rbac.report_written
        /\ rbac.summary_printed
        /\ rbac.raised = ""
        /\ rbac.exit_code # 0
               <=> \E i \in DOMAIN rbac.results : ~rbac.results[i].test_passed

===========================================================================
